---- MODULE Spec2Model ----
(***************************************************************************)
(* The-Dummy-Is-You: WebGL ray tracer with a pose-driven skeleton.         *)
(*                                                                         *)
(* Host side of the renderer (render.js, main.js, poseExporter.js):        *)
(* start-up, the render loop, scene loading, the pose-data event path and  *)
(* the skeleton region of the scene texture.                               *)
(*                                                                         *)
(* Numbers.  A float is kept in fixed point, Unit = 1.0, so 0.001 is 10    *)
(* and 1000 is 10^7.  A scalar of a Float32Array is a tuple: <<v>> is the  *)
(* number v; a longer tuple is an entry of the rotation/scale block that   *)
(* createCylinderMatrix computes with a square root, kept as the entry     *)
(* index together with the arguments that determine it.                    *)
(***************************************************************************)
EXTENDS Integers, Sequences, FiniteSets, TLC

Unit == 10 ^ 4

Lit(v) == <<v>>

Zero == Lit(0)

One == Lit(Unit)

Abs(a) == IF a < 0 THEN -a ELSE a

Min(a, b) == IF a < b THEN a ELSE b

(***************************************************************************)
(* Bounds of the model.                                                    *)
(***************************************************************************)
\* objects of the largest scene file
MaxStaticObjects == 2

\* FileReader loads started
MaxLoads == 2

\* pose-data events dispatched
MaxPoseEvents == 2

\* calls made on a PoseExporter taken on its own
MaxExportCalls == 4

\* clicks on the webcam button
MaxClicks == 5

(***************************************************************************)
(* Program constants.                                                      *)
(***************************************************************************)
SHAPE_CYLINDER == 1

SHAPE_SPHERE == 3

NumLandmarks == 33

(***************************************************************************)
(* render.js: the skeleton structure set up by the constructor.            *)
(* An index is a record: arr says whether the code holds an array of       *)
(* landmark indices (averaged) or a single index.                          *)
(***************************************************************************)
Single(i) == [arr |-> FALSE, ix |-> <<i>>]

Pair(i, j) == [arr |-> TRUE, ix |-> <<i, j>>]

SpherePart(t, l) ==
    [type |-> t, primitive |-> SHAPE_SPHERE, landmark |-> Single(l),
     from |-> Single(0), to |-> Single(0)]

CylinderPart(t, f, g) ==
    [type |-> t, primitive |-> SHAPE_CYLINDER, landmark |-> Single(0),
     from |-> f, to |-> g]

skeletonStructure ==
    << SpherePart("head", 0),
       CylinderPart("torso", Pair(23, 24), Pair(11, 12)),
       SpherePart("joint", 11), SpherePart("joint", 13), SpherePart("joint", 15),
       SpherePart("joint", 12), SpherePart("joint", 14), SpherePart("joint", 16),
       SpherePart("joint", 23), SpherePart("joint", 25), SpherePart("joint", 27),
       SpherePart("joint", 24), SpherePart("joint", 26), SpherePart("joint", 28),
       CylinderPart("bone", Single(11), Single(13)),
       CylinderPart("bone", Single(13), Single(15)),
       CylinderPart("bone", Single(12), Single(14)),
       CylinderPart("bone", Single(14), Single(16)),
       CylinderPart("bone", Single(23), Single(25)),
       CylinderPart("bone", Single(25), Single(27)),
       CylinderPart("bone", Single(24), Single(26)),
       CylinderPart("bone", Single(26), Single(28)) >>

poseObjectCount == Len(skeletonStructure)

(***************************************************************************)
(* Float32Array.  Every array of the renderer holds whole rows of          *)
(* floatsPerRow (or floatsPerObject) floats, so an array is kept as the    *)
(* sequence of its rows: the float at offset p of an array of row width w  *)
(* is arr[p \div w + 1][p % w + 1].  A write outside the array is ignored, *)
(* as a typed array does.                                                  *)
(***************************************************************************)
Zeros(w) == [c \in 1 .. w |-> Zero]

NewFloat32Array(rows, w) == [r \in 1 .. rows |-> Zeros(w)]

FlatGet(arr, w, p) ==
    IF p >= 0 /\ (p \div w) < Len(arr) THEN arr[(p \div w) + 1][(p % w) + 1] ELSE Zero

(***************************************************************************)
(* The 35 fields both row writers store at offset..offset+34:              *)
(* type, 16 matrix entries, 18 material fields.                            *)
(***************************************************************************)
FieldsWritten == 35

\* variant: ones at every fourth entry
IdentityEntry_EveryFourth(j) == IF j % 4 = 0 THEN One ELSE Zero

IdentityEntry(j) == IF j % 5 = 0 THEN One ELSE Zero

IdentityMatrix ==
    << IdentityEntry(0), IdentityEntry(1), IdentityEntry(2), IdentityEntry(3),
       IdentityEntry(4), IdentityEntry(5), IdentityEntry(6), IdentityEntry(7),
       IdentityEntry(8), IdentityEntry(9), IdentityEntry(10), IdentityEntry(11),
       IdentityEntry(12), IdentityEntry(13), IdentityEntry(14), IdentityEntry(15) >>

\* variant: the colours updatePoseObjects gives a posed part
InitDiffuse_Posed(type) ==
    IF type = "head" THEN << One, One, Zero >>
    ELSE IF type = "torso"
         THEN << Lit((6 * Unit) \div 10), Lit((6 * Unit) \div 10), Lit((6 * Unit) \div 10) >>
    ELSE IF type = "joint" THEN << One, Zero, Zero >>
    ELSE << Zero, One, One >>

InitDiffuse(type) ==
    IF type = "head" THEN << Lit(Unit), Lit((8 * Unit) \div 10), Lit((6 * Unit) \div 10) >>
    ELSE IF type = "torso"
         THEN << Lit((2 * Unit) \div 10), Lit((4 * Unit) \div 10), Lit((8 * Unit) \div 10) >>
    ELSE IF type = "joint"
         THEN << Lit((9 * Unit) \div 10), Lit((9 * Unit) \div 10), Lit((9 * Unit) \div 10) >>
    ELSE << Lit((6 * Unit) \div 10), Lit((6 * Unit) \div 10), Lit((6 * Unit) \div 10) >>

UpdateDiffuse(type) ==
    IF type = "head" THEN << One, One, Zero >>
    ELSE IF type = "torso"
         THEN << Lit((6 * Unit) \div 10), Lit((6 * Unit) \div 10), Lit((6 * Unit) \div 10) >>
    ELSE IF type = "joint" THEN << One, Zero, Zero >>
    ELSE << Zero, One, One >>

\* The fields of a skeleton row in offset order: the type at +0, the matrix
\* at +1..+16, the material at +17..+34 with the given diffuse colour; the
\* other material fields are the same in initializePoseObjects and
\* updatePoseObjects.  A matrix is the tuple of its 16 entries in the order
\* the code lists them: entry j of the code is matrix[j + 1].
PoseRow(part, matrix, rgb) ==
    << Lit(part.primitive * Unit) >> \o matrix
       \o << Lit((2 * Unit) \div 10), Lit((2 * Unit) \div 10), Lit((2 * Unit) \div 10) >>
       \o rgb
       \o << Lit((5 * Unit) \div 10), Lit((5 * Unit) \div 10), Lit((5 * Unit) \div 10),
             Lit(30 * Unit), One, Zero, One, One, Zero, Zero, Zero, Zero >>

\* The loop writes rows i = 0..count-1 in order, row i at
\* (startIndex + i) * floatsPerRow + 0..34.  Array row r (0-based) ends up
\* holding the fields of the last loop row that reached it: its own row, or
\* what the last loop row spilled past its end; the floats no row reached keep
\* their old value.
WriteRows(arr, startIndex, floatsPerRow, count, fields) ==
    [r \in 1 .. Len(arr) |->
        LET i == (r - 1) - startIndex
            last == Min(i, count - 1)
            k0 == (i - last) * floatsPerRow
        IN  IF i >= 0 /\ count > 0 /\ k0 < FieldsWritten
            THEN LET n == Min(FieldsWritten - k0, floatsPerRow)
                 IN  SubSeq(fields[last], k0 + 1, k0 + n) \o SubSeq(arr[r], n + 1, floatsPerRow)
            ELSE arr[r]]

initializePoseObjects(dataArray, startIndex, floatsPerObject, floatsPerRow) ==
    LET fields == [i \in 0 .. (poseObjectCount - 1) |->
                      PoseRow(skeletonStructure[i + 1], IdentityMatrix,
                              InitDiffuse(skeletonStructure[i + 1].type))]
    IN  WriteRows(dataArray, startIndex, floatsPerRow, poseObjectCount, fields)

(***************************************************************************)
(* poseExporter.js: PoseExporter.exportPose builds the pose-data record.   *)
(* A MediaPipe result is [landmarks, worldLandmarks]: one list of          *)
(* landmarks per detected person; hasWorld is FALSE when the result has no *)
(* worldLandmarks.  A landmark list may have holes (present = FALSE);      *)
(* Array.map keeps a hole a hole.                                          *)
(***************************************************************************)
Hole == [present |-> FALSE, id |-> 0, x |-> 0, y |-> 0, z |-> 0, visibility |-> 0]

ExportLandmark(landmark, idx) ==
    IF ~landmark.present THEN Hole
    ELSE [present |-> TRUE, id |-> idx, x |-> landmark.x, y |-> landmark.y,
          z |-> landmark.z,
          visibility |-> IF landmark.visibility = 0 THEN Unit ELSE landmark.visibility]

ExportLandmarks(list) == [n \in 1 .. Len(list) |-> ExportLandmark(list[n], n - 1)]

NoPose == [frameCount |-> -1, poses |-> <<>>]

ExportPoseData(result, frameCount) ==
    [frameCount |-> frameCount,
     poses |-> [n \in 1 .. Len(result.landmarks) |->
                  [personId |-> n - 1,
                   landmarks |-> ExportLandmarks(result.landmarks[n]),
                   worldLandmarks |->
                      IF result.hasWorld /\ n <= Len(result.worldLandmarks)
                      THEN ExportLandmarks(result.worldLandmarks[n])
                      ELSE <<>>]]]

\* variant: the first detail received is kept
ReceivePose_KeepFirst(old, detail) == IF old = NoPose THEN detail ELSE old

\* The PoseReceiver listener hands event.detail to the renderer's callback,
\* which stores it in lastPoseData.
ReceivePose(old, detail) == detail

(***************************************************************************)
(* render.js: updatePoseObjects and its helpers.                           *)
(***************************************************************************)
Hide == 1000 * Unit

\* variant: a missing landmark counts as the origin
landmarkToPos_MissingAtOrigin(landmark, useWorld) ==
    IF ~landmark.present THEN << 0, 0, 0 >>
    ELSE IF useWorld
         THEN << -landmark.x * 2, -landmark.y * 2 + (15 * Unit) \div 10, -landmark.z * 2 >>
         ELSE << (landmark.x - Unit \div 2) * 4,
                 -(landmark.y - Unit \div 2) * 4 + (15 * Unit) \div 10,
                 -landmark.z * 4 >>

landmarkToPos(landmark, useWorld) ==
    IF ~landmark.present THEN << Hide, Hide, Hide >>
    ELSE IF useWorld
         THEN << -landmark.x * 2, -landmark.y * 2 + (15 * Unit) \div 10, -landmark.z * 2 >>
         ELSE << (landmark.x - Unit \div 2) * 4,
                 -(landmark.y - Unit \div 2) * 4 + (15 * Unit) \div 10,
                 -landmark.z * 4 >>

\* landmarks[i] for a 0-based index i known to be < landmarks.length
At(landmarks, i) == landmarks[i + 1]

getLandmark(landmarks, useWorld, idx) ==
    IF idx.arr
    THEN LET ok == { n \in 1 .. Len(idx.ix) :
                       idx.ix[n] < Len(landmarks) /\ At(landmarks, idx.ix[n]).present }
             pos(n) == landmarkToPos(At(landmarks, idx.ix[n]), useWorld)
             sum[n \in 0 .. Len(idx.ix)] ==
                IF n = 0 THEN << 0, 0, 0 >>
                ELSE IF n \in ok
                     THEN << sum[n - 1][1] + pos(n)[1], sum[n - 1][2] + pos(n)[2],
                             sum[n - 1][3] + pos(n)[3] >>
                     ELSE sum[n - 1]
             total == sum[Len(idx.ix)]
             count == Cardinality(ok)
         IN  IF count > 0
             THEN << total[1] \div count, total[2] \div count, total[3] \div count >>
             ELSE << Hide, Hide, Hide >>
    ELSE IF idx.ix[1] < Len(landmarks)
         THEN landmarkToPos(At(landmarks, idx.ix[1]), useWorld)
         ELSE << Hide, Hide, Hide >>

\* variant: only identical anchors count as too short
TooShort_ZeroOnly(dir) == dir = << 0, 0, 0 >>

\* length < 0.001, computed without squaring a large component: a component
\* of 0.001 or more already makes the length 0.001 or more.
TooShort(dir) ==
    IF Abs(dir[1]) >= Unit \div 1000 \/ Abs(dir[2]) >= Unit \div 1000
          \/ Abs(dir[3]) >= Unit \div 1000
    THEN FALSE
    ELSE dir[1] * dir[1] + dir[2] * dir[2] + dir[3] * dir[3]
            < (Unit \div 1000) * (Unit \div 1000)

HideMatrix ==
    << Lit(Unit \div 1000), Zero, Zero, Lit(Hide),
       Zero, Lit(Unit \div 1000), Zero, Lit(Hide),
       Zero, Zero, Lit(Unit \div 1000), Lit(Hide),
       Zero, Zero, Zero, One >>

\* Entry j of the rotation/scale block of T * R * S: a function of the bone
\* direction, the radius and the height scale (it takes a square root).
AxisEntry(j, dir, radius, heightScale) ==
    << j, dir[1], dir[2], dir[3], radius, heightScale >>

createCylinderMatrix(fromPos, toPos, radius, heightScale) ==
    LET dir == << toPos[1] - fromPos[1], toPos[2] - fromPos[2], toPos[3] - fromPos[3] >>
        center(c) == Lit((fromPos[c] + toPos[c]) \div 2)
        axis(j) == AxisEntry(j, dir, radius, heightScale)
    IN  IF TooShort(dir) THEN HideMatrix
        ELSE << axis(0), axis(1), axis(2), center(1),
                axis(4), axis(5), axis(6), center(2),
                axis(8), axis(9), axis(10), center(3),
                Zero, Zero, Zero, One >>

SphereMatrix(scale, pos) ==
    << Lit(scale), Zero, Zero, Lit(pos[1]),
       Zero, Lit(scale), Zero, Lit(pos[2]),
       Zero, Zero, Lit(scale), Lit(pos[3]),
       Zero, Zero, Zero, One >>

PartMatrix(part, landmarks, useWorld) ==
    IF part.type = "head" \/ part.type = "joint"
    THEN LET baseJointScale == (24 * Unit) \div 100
         IN  SphereMatrix(IF part.type = "head" THEN baseJointScale * 3 ELSE baseJointScale,
                          getLandmark(landmarks, useWorld, part.landmark))
    ELSE IF part.type = "torso"
    THEN LET baseJointScale == (16 * Unit) \div 100
         IN  createCylinderMatrix(getLandmark(landmarks, useWorld, part.from),
                                  getLandmark(landmarks, useWorld, part.to),
                                  baseJointScale * 4, 2 * Unit)
    ELSE createCylinderMatrix(getLandmark(landmarks, useWorld, part.from),
                              getLandmark(landmarks, useWorld, part.to),
                              ((5 * Unit) \div 100) * 2, (15 * Unit) \div 10)

\* the matrices of parts 0..n-1, in the order of the loop over the parts
RECURSIVE PartMatrices(_, _, _)

PartMatrices(n, landmarks, useWorld) ==
    IF n = 0 THEN << >>
    ELSE Append(PartMatrices(n - 1, landmarks, useWorld),
                PartMatrix(skeletonStructure[n], landmarks, useWorld))

\* variant: the entry is accumulated onto what the array held
StoreMatrixEntry_Accumulate(old, m) ==
    IF Len(old) = 1 /\ Len(m) = 1 THEN Lit(old[1] + m[1]) ELSE m

\* poseDataArray[offset + 1 + j] = matrix[j]
StoreMatrixEntry(old, m) == m

\* gl.texSubImage2D(TEXTURE_2D, 0, 0, yoffset, width, height, RGBA, FLOAT, data)
\* on a texture [width, height, data]; GL reads data as height rows of
\* width * 4 floats.  A region outside the texture, or a buffer too small for
\* it, is a GL error and writes nothing.
texSubImage2D(tex, yoffset, width, height, data) ==
    IF yoffset < 0 \/ yoffset + height > tex.height \/ width > tex.width
          \/ Len(data) < height
          \/ \E r \in 1 .. height : Len(data[r]) # width * 4
    THEN tex
    ELSE [tex EXCEPT !.data =
            [r \in 1 .. Len(tex.data) |->
                IF r - 1 >= yoffset /\ r - 1 < yoffset + height
                THEN data[r - yoffset] \o SubSeq(tex.data[r], width * 4 + 1, tex.width * 4)
                ELSE tex.data[r]]]

\* variant: the person detected last
ConsumedPose_Last(poses) == poses[Len(poses)]

\* const pose = poseData.poses[0]
ConsumedPose(poses) == poses[1]

\* variant: the skeleton upload placed at the top of the texture
PoseUploadRow_Top(start) == 0

\* y offset of the skeleton upload
PoseUploadRow(start) == start

\* this: the renderer fields updatePoseObjects reads and writes
\* (sceneTexture, gpu, poseDataArray, floatsPerRow, texWidth,
\* poseObjectStartIndex).  Returns them with uploaded saying whether the
\* texSubImage2D call was reached.
updatePoseObjects(this, poseData) ==
    IF poseData = NoPose \/ Len(poseData.poses) = 0
    THEN [this |-> this, uploaded |-> FALSE]
    ELSE IF this.sceneTexture = 0 \/ ~this.hasPoseDataArray
    THEN [this |-> this, uploaded |-> FALSE]
    ELSE LET pose == ConsumedPose(poseData.poses)
             useWorld == Len(pose.worldLandmarks) > 0
             landmarks == IF useWorld THEN pose.worldLandmarks ELSE pose.landmarks
         IN  IF Len(landmarks) < NumLandmarks
             THEN [this |-> this, uploaded |-> FALSE]
             ELSE CHOOSE done \in
                     { [this |-> [this EXCEPT
                                    !.poseDataArray = arr,
                                    !.gpu = texSubImage2D(this.gpu,
                                               PoseUploadRow(this.poseObjectStartIndex),
                                               this.texWidth, poseObjectCount, arr)],
                        uploaded |-> TRUE] :
                       arr \in
                         { LET stored(i) ==
                                   [j \in 1 .. 16 |->
                                       StoreMatrixEntry(
                                           FlatGet(this.poseDataArray, this.floatsPerRow,
                                                   i * this.floatsPerRow + j),
                                           matrix[i + 1][j])]
                               fields ==
                                   [i \in 0 .. (poseObjectCount - 1) |->
                                       PoseRow(skeletonStructure[i + 1], stored(i),
                                               UpdateDiffuse(skeletonStructure[i + 1].type))]
                           IN  WriteRows(this.poseDataArray, 0, this.floatsPerRow,
                                         poseObjectCount, fields) :
                           matrix \in { PartMatrices(poseObjectCount, landmarks, useWorld) } }
                     } : TRUE

\* variant: the skeleton region placed behind all rows
PoseStartIndex_PastEnd(objectCount) == objectCount + poseObjectCount

(***************************************************************************)
(* render.js: createSceneDataTexture.                                      *)
(***************************************************************************)
\* this.poseObjectStartIndex = objectCount
PoseStartIndex(objectCount) == objectCount

\* gl.createTexture + gl.texImage2D(..., texWidth, texHeight, ..., dataArray)
texImage2D(texWidth, texHeight, dataArray) ==
    [width |-> texWidth, height |-> texHeight, data |-> dataArray]

\* variant: the objects packed back to back
DstOffset_Packed(i, floatsPerObject, floatsPerRow) == i * floatsPerObject

\* const dstOffset = i * floatsPerRow
DstOffset(i, floatsPerObject, floatsPerRow) == i * floatsPerRow

\* The copy loop: object i goes to dstOffset..dstOffset+floatsPerObject-1 of
\* the zero-filled dataArray, a later object over an earlier one where they
\* overlap.  The float at offset p is the float of row p \div floatsPerRow,
\* column p % floatsPerRow.
CopyObjects(flatArray, objectCount, floatsPerObject, floatsPerRow, rows) ==
    [r \in 1 .. rows |->
        [c \in 1 .. floatsPerRow |->
            LET p == (r - 1) * floatsPerRow + (c - 1)
                writers == { i \in 0 .. (objectCount - 1) :
                               /\ p >= DstOffset(i, floatsPerObject, floatsPerRow)
                               /\ p < DstOffset(i, floatsPerObject, floatsPerRow)
                                         + floatsPerObject }
            IN  IF writers = { } THEN Zero
                ELSE LET i == CHOOSE w \in writers : \A v \in writers : v <= w
                     IN  flatArray[i + 1][p - DstOffset(i, floatsPerObject, floatsPerRow) + 1]]]

createSceneDataTexture(flatArray, objectCount, floatsPerObject) ==
    LET floatsPerRow == ((floatsPerObject + 3) \div 4) * 4
        totalObjectCount == objectCount + poseObjectCount
        texWidth == floatsPerRow \div 4
        texHeight == totalObjectCount
        copied == CopyObjects(flatArray, objectCount, floatsPerObject, floatsPerRow,
                              totalObjectCount)
        start == PoseStartIndex(objectCount)
        dataArray == initializePoseObjects(copied, start, floatsPerObject, floatsPerRow)
    IN  [poseObjectStartIndex |-> start,
         gpu |-> texImage2D(texWidth, texHeight, dataArray),
         objectCount |-> totalObjectCount,
         floatsPerObject |-> floatsPerObject,
         floatsPerRow |-> floatsPerRow,
         texWidth |-> texWidth,
         texHeight |-> texHeight,
         poseDataArray |-> NewFloat32Array(poseObjectCount, floatsPerRow)]

(***************************************************************************)
(* test.frag: reading the scene buffer.  The sampler is the texture        *)
(* [width, height, data]: texel (x, y) holds the four floats               *)
(* data[y + 1][4x + 1 .. 4x + 4].                                          *)
(***************************************************************************)
\* texelFetch(uSceneBuffer, ivec2(x, y), 0); a fetch outside the texture
\* returns zero (WebGL 2)
texelFetch(tex, x, y) ==
    IF x >= 0 /\ x < tex.width /\ y >= 0 /\ y < tex.height
    THEN SubSeq(tex.data[y + 1], 4 * x + 1, 4 * x + 4)
    ELSE << Zero, Zero, Zero, Zero >>

fetchFloat(tex, idx, row) ==
    LET texelX == idx \div 4
        channel == idx - texelX * 4
        texel == texelFetch(tex, texelX, row)
    IN  IF channel = 0 THEN texel[1]
        ELSE IF channel = 1 THEN texel[2]
        ELSE IF channel = 2 THEN texel[3]
        ELSE texel[4]

\* variant: the float of M[c][r] taken from column-major storage
MatrixIndex_ColumnMajor(r, c) == 1 + c * 4 + r

\* base + r * 4 + c, base = 1
MatrixIndex(r, c) == 1 + r * 4 + c

\* the mat4 M, M[c][r] for column c and row r (both 0-based)
fetchWorldMatrix(tex, idx) ==
    [c \in 0 .. 3 |-> [r \in 0 .. 3 |-> fetchFloat(tex, MatrixIndex(r, c), idx)]]

fetchMaterial(tex, idx) ==
    LET base == 1 + 16
    IN  [ambientColor |-> << fetchFloat(tex, base + 0, idx), fetchFloat(tex, base + 1, idx),
                             fetchFloat(tex, base + 2, idx) >>,
         diffuseColor |-> << fetchFloat(tex, base + 3, idx), fetchFloat(tex, base + 4, idx),
                             fetchFloat(tex, base + 5, idx) >>,
         specularColor |-> << fetchFloat(tex, base + 6, idx), fetchFloat(tex, base + 7, idx),
                              fetchFloat(tex, base + 8, idx) >>,
         shininess |-> fetchFloat(tex, base + 9, idx),
         ior |-> fetchFloat(tex, base + 10, idx),
         useTexture |-> fetchFloat(tex, base + 11, idx),
         repeatUV |-> << fetchFloat(tex, base + 12, idx), fetchFloat(tex, base + 13, idx) >>,
         textureIndex |-> fetchFloat(tex, base + 14, idx),
         reflectiveColor |-> << fetchFloat(tex, base + 15, idx),
                                fetchFloat(tex, base + 16, idx),
                                fetchFloat(tex, base + 17, idx) >>]

(***************************************************************************)
(* Inputs.  XMLSceneParser and SceneFlattener are collaborators of the     *)
(* renderer: a scene file is given by what they return for it.             *)
(***************************************************************************)
SceneFile(id, parseOk, flattenOk, n, maps, fetchOk) ==
    [id |-> id, parseOk |-> parseOk, flattenOk |-> flattenOk, objectCount |-> n,
     floatsPerObject |-> FieldsWritten, maps |-> maps, fetchOk |-> fetchOk, lights |-> id]

GoodScene(n) == SceneFile(n, TRUE, TRUE, n, n - 1, TRUE)

BadFlatten == SceneFile(91, TRUE, FALSE, 1, 0, TRUE)

\* the largest scene; one of its texture maps cannot be fetched
BadFetch == SceneFile(92, TRUE, TRUE, MaxStaticObjects, 1, FALSE)

\* uniform sampler2D uTextures[8]
SamplerSlots == 8

\* a flattener whose objects carry two fields more than the 35 the renderer
\* writes for a skeleton part, and a scene that references one texture map
\* more than the shader has slots
WideScene == [GoodScene(1) EXCEPT !.id = 93, !.lights = 93,
                                  !.floatsPerObject = FieldsWritten + 2,
                                  !.maps = SamplerSlots + 1]

Scenes == { GoodScene(n) : n \in 1 .. (MaxStaticObjects - 1) } \cup { BadFetch, WideScene }

\* SceneFlattener.getFloat32Array(): objectCount rows of floatsPerObject
\* scalars, field 0 of an object its type tag
getFloat32Array(scene) ==
    [i \in 1 .. scene.objectCount |->
        [k \in 1 .. scene.floatsPerObject |->
            IF k = 1 THEN Lit(((i + scene.id) % 4) * Unit)
            ELSE Lit(scene.id * 1000 + i * 100 + k)]]

Lm(x, y, z, v) == [present |-> TRUE, x |-> x, y |-> y, z |-> z, visibility |-> v]

FullFrame(k) ==
    [n \in 1 .. NumLandmarks |-> Lm(400 * (n - 1) + 4000 * k, 200 * (n - 1), 80 * k, (n % 2) * 5000)]

ShortFrame == SubSeq(FullFrame(0), 1, 10)

HoleIndices == { 0, 13, 23, 24, 25, 27 }

HoleFrame ==
    [n \in 1 .. NumLandmarks |->
        IF (n - 1) \in HoleIndices
        THEN [present |-> FALSE, x |-> 0, y |-> 0, z |-> 0, visibility |-> 0]
        ELSE FullFrame(1)[n]]

Result(landmarks, hasWorld, worldLandmarks) ==
    [landmarks |-> landmarks, hasWorld |-> hasWorld, worldLandmarks |-> worldLandmarks]

\* world landmarks with landmark 28 put 0.0002 beside landmark 26: the
\* anchors of the last bone end up 0.0004 apart
WorldFrame == [FullFrame(1) EXCEPT ![29] = [FullFrame(1)[27] EXCEPT !.x = @ + 2]]

\* two persons detected, with world landmarks
RWorld == Result(<< FullFrame(0), ShortFrame >>, TRUE, << WorldFrame, FullFrame(2) >>)

RShort == Result(<< ShortFrame >>, FALSE, << >>)

RHole == Result(<< HoleFrame >>, FALSE, << >>)

REmpty == Result(<< >>, FALSE, << >>)

PoseResults == { RWorld, RShort, RHole, REmpty }

DisplaySizes == { 1, 2 }

(***************************************************************************)
(* State.                                                                  *)
(***************************************************************************)
VARIABLES
    glOk,               \* canvas.getContext('webgl2') returns a context
    shaderOk,           \* the shader sources load and build (the same files for every init)
    initPc,             \* the two calls of WebGLRenderer.init
    initFailures,       \* failures written to the status element by init
    xmlHandlers,        \* 'change' listeners on the XML input
    poseReceivers,      \* 'pose-data' listeners on window
    rafPending,         \* render-loop callbacks queued for the next refresh
    batch,              \* callbacks of the current refresh still to run
    sceneParser,        \* load that owns this.sceneParser, 0: the constructor's
    sceneFlattener,     \* scene id this.sceneFlattener was built for, 0: null
    loads,              \* FileReader loads started: [scene, pc, parsed, root]
    baseObjectCount, objectCount, floatsPerObject, floatsPerRow, texWidth, texHeight,
    poseObjectStartIndex,
    sceneTexture,       \* handle of this.sceneTexture, 0: null
    gpu,                \* the texture object behind that handle
    poseDataArray,
    textures, camera, sceneReady, uniformsLogged,
    lastPoseData,
    canvasSize, displaySize,
    frameCount,         \* PoseExporter.frameCount
    frame,              \* what the task that just ran did if it was a renderFrame
    lastDispatched,     \* detail of the last pose-data event dispatched
    skeletonStale,      \* pose data or a scene texture arrived since the last skeleton upload
    shade,              \* one run of the fragment shader's ray code: its inputs and result
    exporter,           \* a PoseExporter under a sequence of calls
    detector            \* the PoseDetector's webcam loop

startVars == << glOk, shaderOk, initPc, initFailures, xmlHandlers, poseReceivers >>

loopVars == << rafPending, batch >>

loadVars == << sceneParser, sceneFlattener, loads, textures, camera, sceneReady >>

textureVars ==
    << baseObjectCount, objectCount, floatsPerObject, floatsPerRow, texWidth, texHeight,
       poseObjectStartIndex, sceneTexture, gpu, poseDataArray >>

poseVars == << lastPoseData, frameCount, lastDispatched >>

frameVars == << uniformsLogged, canvasSize >>

hostVars ==
    << startVars, loopVars, loadVars, textureVars, poseVars, frameVars, displaySize,
       skeletonStale, frame >>

sideVars == << shade, exporter, detector >>

vars == << hostVars, sideVars >>

NullArray == NewFloat32Array(0, 0)

NullTexture == texImage2D(0, 0, NullArray)

NoUniforms ==
    [uResolution |-> 0, uCamera |-> 0, uGlobal |-> 0, uSceneBuffer |-> 0,
     uObjectCount |-> 0, uFloatsPerRow |-> 0, uSceneTexWidth |-> 0, uSceneTexHeight |-> 0,
     uNumLights |-> 0, uTextures |-> 0]

NoFrame ==
    [log |-> << >>, usedPose |-> << >>, newData |-> FALSE, drawnAsBound |-> TRUE,
     u |-> NoUniforms]

\* initGL, then the await of setupShaders
InitStart == IF glOk THEN "fetching" ELSE "nogl"

\* no shader run is followed
NoShade == [op |-> "off"]

HostInit ==
    /\ glOk \in BOOLEAN
    /\ shaderOk \in BOOLEAN
    /\ initPc = [k \in 1 .. 2 |-> IF k = 1 THEN InitStart ELSE "notCalled"]
    /\ initFailures = IF glOk THEN 0 ELSE 1
    /\ xmlHandlers = 0
    /\ poseReceivers = 0
    /\ rafPending = 0
    /\ batch = 0
    /\ sceneParser = 0
    /\ sceneFlattener = 0
    /\ loads = << >>
    /\ baseObjectCount = 0
    /\ objectCount = 0
    /\ floatsPerObject = 0
    /\ floatsPerRow = 0
    /\ texWidth = 0
    /\ texHeight = 0
    /\ poseObjectStartIndex = 0
    /\ sceneTexture = 0
    /\ gpu = NullTexture
    /\ poseDataArray = NullArray
    /\ textures = << >>
    /\ camera = 0
    /\ sceneReady = FALSE
    /\ uniformsLogged = FALSE
    /\ lastPoseData = NoPose
    /\ canvasSize \in DisplaySizes
    /\ displaySize = 1
    /\ frameCount = 0
    /\ frame = NoFrame
    /\ lastDispatched = NoPose
    /\ skeletonStale = FALSE

NoExporter == [op |-> "off"]

NoDetector == [op |-> "off"]

Init == HostInit /\ shade = NoShade /\ exporter = NoExporter /\ detector = NoDetector

\* the renderer at rest, for the parts of the program taken on their own
HostAtRest ==
    /\ HostInit
    /\ glOk
    /\ shaderOk
    /\ canvasSize = displaySize

(***************************************************************************)
(* Start-up.  The constructor calls init() and main.js calls it again.     *)
(* The event loop runs one handler at a time, and the callbacks of one     *)
(* display refresh run back to back (batch = 0 between refreshes).         *)
(***************************************************************************)
Started == initPc[2] # "notCalled"

\* main.js: await renderer.init(), in the same task as the constructor
MainInit ==
    /\ initPc[2] = "notCalled"
    /\ initPc' = [initPc EXCEPT ![2] = InitStart]
    /\ initFailures' = IF glOk THEN initFailures ELSE initFailures + 1
    /\ frame' = NoFrame
    /\ UNCHANGED << glOk, shaderOk, xmlHandlers, poseReceivers, loopVars, loadVars,
                    textureVars, poseVars, frameVars, displaySize, sideVars, skeletonStale >>

\* init() after await this.setupShaders()
InitResume(k) ==
    /\ Started
    /\ batch = 0
    /\ initPc[k] = "fetching"
    /\ IF shaderOk
       THEN /\ initPc' = [initPc EXCEPT ![k] = "done"]
            /\ xmlHandlers' = xmlHandlers + 1
            /\ poseReceivers' = poseReceivers + 1
            /\ rafPending' = rafPending + 1
            /\ UNCHANGED initFailures
       ELSE /\ initPc' = [initPc EXCEPT ![k] = "failed"]
            /\ initFailures' = initFailures + 1
            /\ UNCHANGED << xmlHandlers, poseReceivers, rafPending >>
    /\ frame' = NoFrame
    /\ UNCHANGED << glOk, shaderOk, batch, loadVars, textureVars,
                    poseVars, frameVars, displaySize, sideVars, skeletonStale >>

\* main.js goes on to the PoseDetector once its await of init() returns
DetectorStarted == initPc[2] \in { "done", "failed", "nogl" }

(***************************************************************************)
(* poseExporter.js: exportPose dispatches a pose-data event; the           *)
(* PoseReceiver listeners run inside dispatchEvent.                        *)
(***************************************************************************)
ExportPose(result) ==
    /\ DetectorStarted
    /\ batch = 0
    /\ frameCount < MaxPoseEvents
    /\ IF Len(result.landmarks) = 0
       THEN UNCHANGED << poseVars, skeletonStale >>
       ELSE LET poseData == ExportPoseData(result, frameCount)
            IN  /\ frameCount' = frameCount + 1
                /\ lastDispatched' = poseData
                /\ IF poseReceivers > 0
                   THEN /\ lastPoseData' = ReceivePose(lastPoseData, poseData)
                        /\ skeletonStale' = TRUE
                   ELSE UNCHANGED << lastPoseData, skeletonStale >>
    /\ frame' = NoFrame
    /\ UNCHANGED << startVars, loopVars, loadVars, textureVars, frameVars,
                    displaySize, sideVars >>

(***************************************************************************)
(* render.js: handleXMLFileInput.  Every registered 'change' listener      *)
(* starts its own FileReader; reader.onload runs in three parts, split at  *)
(* its awaits.                                                             *)
(***************************************************************************)
NewLoad(scene) == [scene |-> scene, pc |-> "reading", parsed |-> FALSE, root |-> scene]

FileChange(scene) ==
    /\ xmlHandlers > 0
    /\ batch = 0
    /\ Len(loads) + xmlHandlers <= MaxLoads
    /\ loads' = loads \o [n \in 1 .. xmlHandlers |-> NewLoad(scene)]
    /\ frame' = NoFrame
    /\ UNCHANGED << startVars, loopVars, sceneParser, sceneFlattener, textures, camera,
                    sceneReady, textureVars, poseVars, frameVars, displaySize, sideVars,
                    skeletonStale >>

\* reader.onerror
ReadError(i) ==
    /\ batch = 0
    /\ i \in DOMAIN loads
    /\ loads[i].pc = "reading"
    /\ loads' = [loads EXCEPT ![i].pc = "failed"]
    /\ frame' = NoFrame
    /\ UNCHANGED << startVars, loopVars, sceneParser, sceneFlattener, textures,
                    camera, sceneReady, textureVars, poseVars, frameVars, displaySize, sideVars,
                    skeletonStale >>

\* reader.onload up to await this.sceneParser.parseFromString(xmlText)
LoadOnload(i) ==
    /\ batch = 0
    /\ i \in DOMAIN loads
    /\ loads[i].pc = "reading"
    /\ sceneParser' = i
    /\ loads' = [loads EXCEPT ![i].pc = "parsing"]
    /\ frame' = NoFrame
    /\ UNCHANGED << startVars, loopVars, sceneFlattener, textures, camera,
                    sceneReady, textureVars, poseVars, frameVars, displaySize, sideVars,
                    skeletonStale >>

\* Whether the parser of load j holds a parsed scene; the constructor's
\* parser (j = 0) never parsed anything.
HasRoot(ls, j) == j # 0 /\ ls[j].parsed

\* from the parse result to await Promise.all(...): flatten the root node of
\* this.sceneParser, build the scene texture, start the texture fetches
LoadParsed(i) ==
    /\ batch = 0
    /\ i \in DOMAIN loads
    /\ loads[i].pc = "parsing"
    /\ LET parseOk == loads[i].scene.parseOk
           ls == [loads EXCEPT ![i].parsed = parseOk]
           root == IF HasRoot(ls, sceneParser) THEN ls[sceneParser].scene ELSE BadFlatten
       IN  IF ~parseOk
           THEN /\ loads' = [ls EXCEPT ![i].pc = "failed"]
                /\ UNCHANGED << sceneFlattener, textureVars, skeletonStale >>
           ELSE IF ~HasRoot(ls, sceneParser) \/ ~root.flattenOk
           THEN /\ loads' = [ls EXCEPT ![i].pc = "failed"]
                /\ sceneFlattener' = IF HasRoot(ls, sceneParser) THEN root.id ELSE -1
                /\ UNCHANGED << textureVars, skeletonStale >>
           ELSE \E new \in { createSceneDataTexture(getFloat32Array(root), root.objectCount,
                                                       root.floatsPerObject) } :
                    /\ loads' = [ls EXCEPT ![i].pc = "fetching", ![i].root = root]
                    /\ sceneFlattener' = root.id
                    /\ baseObjectCount' = root.objectCount
                    /\ poseObjectStartIndex' = new.poseObjectStartIndex
                    /\ sceneTexture' = sceneTexture + 1
                    /\ gpu' = new.gpu
                    /\ objectCount' = new.objectCount
                    /\ floatsPerObject' = new.floatsPerObject
                    /\ floatsPerRow' = new.floatsPerRow
                    /\ texWidth' = new.texWidth
                    /\ texHeight' = new.texHeight
                    /\ poseDataArray' = new.poseDataArray
                    /\ skeletonStale' = TRUE
    /\ frame' = NoFrame
    /\ UNCHANGED << startVars, loopVars, sceneParser, textures, camera,
                    sceneReady, poseVars, frameVars, displaySize, sideVars >>

\* after the texture fetches: textures, camera, sceneReady
LoadFetched(i) ==
    /\ batch = 0
    /\ i \in DOMAIN loads
    /\ loads[i].pc = "fetching"
    /\ IF ~loads[i].root.fetchOk
       THEN /\ loads' = [loads EXCEPT ![i].pc = "failed"]
            /\ UNCHANGED << textures, camera, sceneReady >>
       ELSE /\ loads' = [loads EXCEPT ![i].pc = "done"]
            /\ textures' = [n \in 1 .. loads[i].root.maps |-> loads[i].root.id]
            /\ camera' = IF HasRoot(loads, sceneParser) THEN loads[sceneParser].scene.id ELSE 0
            /\ sceneReady' = TRUE
    /\ frame' = NoFrame
    /\ UNCHANGED << startVars, loopVars, sceneParser, sceneFlattener,
                    textureVars, poseVars, frameVars, displaySize, sideVars, skeletonStale >>

(***************************************************************************)
(* render.js: renderFrame.  The frame runs to completion; f carries what   *)
(* it changes (canvas, the renderer's pose fields, the uniforms) and the    *)
(* GL calls it made, in order.                                             *)
(***************************************************************************)
\* variant: the skeleton update moved behind the binding of the scene texture
RenderOrder_PoseAfterBind ==
    << "resize", "clear", "sceneReady", "useProgram", "uResolution",
       "camera", "global", "maxDepth", "textures", "uSceneBuffer", "updatePose", "metadata",
       "lights", "logUniforms", "draw" >>

\* variant: the skeleton update moved behind the uniform uploads
RenderOrder_PoseAfterUniforms ==
    << "resize", "clear", "sceneReady", "useProgram", "uResolution",
       "camera", "global", "maxDepth", "textures", "uSceneBuffer", "metadata", "lights",
       "updatePose", "logUniforms", "draw" >>

RenderOrder ==
    << "resize", "clear", "sceneReady", "updatePose", "useProgram", "uResolution",
       "camera", "global", "maxDepth", "textures", "uSceneBuffer", "metadata", "lights",
       "logUniforms", "draw" >>

Logged(f, what) == [f EXCEPT !.log = Append(f.log, what)]

\* this.textures.forEach((tex, i) => ...): the number of textures bound to
\* the units 1 + i and of samplers uTextures[i] set
TexturesBound(texs) == Len(texs)

\* global data and lights of this.sceneParser
ParserScene == IF HasRoot(loads, sceneParser) THEN loads[sceneParser].scene.id ELSE 0

RenderStep(step, f) ==
    IF step = "resize"
    THEN Logged([f EXCEPT !.canvasSize = displaySize],
                IF f.canvasSize # displaySize THEN "viewport" ELSE "resizeCheck")
    ELSE IF step = "clear" THEN Logged(f, "clear")
    ELSE IF step = "sceneReady"
    THEN IF ~sceneReady
         THEN [f EXCEPT !.returned = TRUE]
         ELSE f
    ELSE IF step = "updatePose"
    THEN IF lastPoseData # NoPose
         THEN CHOOSE h \in
                 { LET g == [f EXCEPT !.this = res.this,
                                      !.usedPose = Append(f.usedPose, lastPoseData)]
                   IN  IF res.uploaded
                       THEN Logged(Logged(g, "updatePoseObjects"), "texSubImage2D")
                       ELSE Logged(g, "updatePoseObjects") :
                   res \in { updatePoseObjects(f.this, lastPoseData) } } : TRUE
         ELSE f
    ELSE IF step = "useProgram" THEN Logged(f, "useProgram")
    ELSE IF step = "uResolution"
    THEN Logged([f EXCEPT !.u.uResolution = f.canvasSize], "uResolution")
    ELSE IF step = "camera" THEN Logged([f EXCEPT !.u.uCamera = camera], "camera")
    ELSE IF step = "global" THEN Logged([f EXCEPT !.u.uGlobal = ParserScene], "global")
    ELSE IF step = "maxDepth" THEN Logged(f, "uMaxDepth")
    ELSE IF step = "textures"
    THEN Logged([f EXCEPT !.u.uTextures = TexturesBound(textures)], "textures")
    ELSE IF step = "uSceneBuffer"
    THEN Logged([f EXCEPT !.u.uSceneBuffer = f.this.sceneTexture,
                          !.boundData = f.this.gpu.data], "uSceneBuffer")
    ELSE IF step = "metadata"
    THEN Logged([f EXCEPT !.u.uObjectCount = objectCount,
                          !.u.uFloatsPerRow = f.this.floatsPerRow,
                          !.u.uSceneTexWidth = f.this.texWidth,
                          !.u.uSceneTexHeight = texHeight], "metadata")
    ELSE IF step = "lights" THEN Logged([f EXCEPT !.u.uNumLights = ParserScene], "lights")
    ELSE IF step = "logUniforms" THEN [f EXCEPT !.uniformsLogged = TRUE]
    ELSE Logged([f EXCEPT !.drawnData = f.this.gpu.data], "draw")

RECURSIVE RunSteps(_, _, _)

\* the steps of order from the n-th on, g the frame after step n
RunSteps(order, n, f) ==
    IF n > Len(order) \/ f.returned THEN f
    ELSE CHOOSE r \in { RunSteps(order, n + 1, g) : g \in { RenderStep(order[n], f) } } : TRUE

\* the renderer fields updatePoseObjects works on
PoseFields ==
    [sceneTexture |-> sceneTexture, hasPoseDataArray |-> sceneTexture # 0,
     poseDataArray |-> poseDataArray, floatsPerRow |-> floatsPerRow, texWidth |-> texWidth,
     poseObjectStartIndex |-> poseObjectStartIndex, gpu |-> gpu]

renderFrame ==
    RunSteps(RenderOrder, 1,
             [canvasSize |-> canvasSize, uniformsLogged |-> uniformsLogged,
              returned |-> FALSE, log |-> << >>, usedPose |-> << >>,
              boundData |-> NullArray, drawnData |-> NullArray, u |-> NoUniforms,
              this |-> PoseFields])

(***************************************************************************)
(* render.js: startRenderLoop.  A display refresh runs every callback      *)
(* queued by requestAnimationFrame; each loop callback renders one frame   *)
(* and queues itself again.                                                *)
(***************************************************************************)
DisplayRefresh ==
    /\ batch = 0
    /\ rafPending > 0
    /\ batch' = rafPending
    /\ rafPending' = 0
    /\ frame' = NoFrame
    /\ UNCHANGED << startVars, loadVars, textureVars, poseVars, frameVars,
                    displaySize, sideVars, skeletonStale >>

LoopCallback ==
    /\ batch > 0
    /\ \E f \in { renderFrame } :
           /\ canvasSize' = f.canvasSize
           /\ uniformsLogged' = f.uniformsLogged
           /\ poseDataArray' = f.this.poseDataArray
           /\ gpu' = f.this.gpu
           /\ frame' = [log |-> f.log, usedPose |-> f.usedPose, newData |-> skeletonStale,
                        drawnAsBound |-> f.drawnData = f.boundData, u |-> f.u]
           /\ skeletonStale' =
                 IF \E n \in DOMAIN f.log : f.log[n] = "texSubImage2D"
                 THEN FALSE ELSE skeletonStale
    /\ batch' = batch - 1
    /\ rafPending' = rafPending + 1
    /\ UNCHANGED << startVars, loadVars, baseObjectCount, objectCount, floatsPerObject,
                    floatsPerRow, texWidth, texHeight, poseObjectStartIndex, sceneTexture,
                    poseVars, displaySize, sideVars >>

Next ==
    \/ MainInit
    \/ \E k \in 1 .. 2 : InitResume(k)
    \/ \E result \in PoseResults : ExportPose(result)
    \/ \E scene \in Scenes : FileChange(scene)
    \/ \E i \in 1 .. MaxLoads : ReadError(i)
    \/ \E i \in 1 .. MaxLoads : LoadOnload(i)
    \/ \E i \in 1 .. MaxLoads : LoadParsed(i)
    \/ \E i \in 1 .. MaxLoads : LoadFetched(i)
    \/ DisplayRefresh
    \/ LoopCallback

Spec == Init /\ [][Next]_vars

(***************************************************************************)
(* test.frag: the ray code.  A shader float is an integer count of         *)
(* 1/Unit, so EPSILON = 1e-3 is 10; products and quotients are cut to      *)
(* that grid.  1e20, 1e19 and the infinities of a division by zero are     *)
(* numbers beyond every distance of the model; nothing is ever added to    *)
(* them.  A vec3 is a triple.                                              *)
(***************************************************************************)
EPSILON == Unit \div 1000

Big20 == 2 * 10 ^ 9

Big19 == 10 ^ 9

Infinity == 2 * 10 ^ 9 + 1

Sign(a) == IF a < 0 THEN -1 ELSE 1

\* a * b on the grid, computed in parts that stay below 2^31
SMul(a, b) ==
    LET x == Abs(a)
        y == Abs(b)
    IN  Sign(a) * Sign(b)
          * ((x \div Unit) * (y \div Unit) * Unit + (x \div Unit) * (y % Unit)
               + (x % Unit) * (y \div Unit) + ((x % Unit) * (y % Unit)) \div Unit)

\* a / b on the grid, b # 0
SDiv(a, b) ==
    LET x == Abs(a)
        y == Abs(b)
    IN  Sign(a) * Sign(b) * ((x \div y) * Unit + ((x % y) * Unit) \div y)

\* a / b where b may be 0: a signed infinity (0 / 0 is not a number; the
\* code is never run on it here)
SDivInf(a, b) ==
    IF b # 0 THEN SDiv(a, b)
    ELSE IF a > 0 THEN Infinity ELSE IF a < 0 THEN -Infinity ELSE "NaN"

RECURSIVE ISqrtBetween(_, _, _)

\* the largest s with s * s <= n, lo * lo <= n < hi * hi
ISqrtBetween(n, lo, hi) ==
    IF hi - lo <= 1 THEN lo
    ELSE LET mid == (lo + hi) \div 2
         IN  IF mid * mid <= n THEN ISqrtBetween(n, mid, hi) ELSE ISqrtBetween(n, lo, mid)

\* sqrt(a) on the grid, a >= 0
SSqrt(a) ==
    IF a <= 200000 THEN ISqrtBetween(a * Unit, 0, 46341)
    ELSE 100 * ISqrtBetween(a, 0, 46341)

dot(a, b) == SMul(a[1], b[1]) + SMul(a[2], b[2]) + SMul(a[3], b[3])

\* ro + t * rd
PointAt(ro, rd, t) ==
    << ro[1] + SMul(t, rd[1]), ro[2] + SMul(t, rd[2]), ro[3] + SMul(t, rd[3]) >>

intersectSphere(ro, rd) ==
    LET radius == Unit \div 2
        A == dot(rd, rd)
        B == 2 * dot(ro, rd)
        C == dot(ro, ro) - SMul(radius, radius)
        disc == SMul(B, B) - 4 * SMul(A, C)
    IN  IF disc < 0 THEN -Unit
        ELSE LET sqrtDisc == SSqrt(disc)
                 t1 == SDiv(-B + sqrtDisc, 2 * A)
                 t2 == SDiv(-B - sqrtDisc, 2 * A)
                 tMin0 == Big20
                 tMin1 == IF t1 > EPSILON THEN Min(tMin0, t1) ELSE tMin0
                 tMin == IF t2 > EPSILON THEN Min(tMin1, t2) ELSE tMin1
             IN  IF tMin < Big19 THEN tMin ELSE -Unit

Max(a, b) == IF a > b THEN a ELSE b

intersectCube(ro, rd) ==
    LET tMin == [c \in 1 .. 3 |-> SDivInf(-(Unit \div 2) - ro[c], rd[c])]
        tMax == [c \in 1 .. 3 |-> SDivInf((Unit \div 2) - ro[c], rd[c])]
        t1 == [c \in 1 .. 3 |-> Min(tMin[c], tMax[c])]
        t2 == [c \in 1 .. 3 |-> Max(tMin[c], tMax[c])]
        tNear == Max(Max(t1[1], t1[2]), t1[3])
        tFar == Min(Min(t2[1], t2[2]), t2[3])
    IN  IF tFar < EPSILON \/ tNear > tFar THEN -Unit
        ELSE LET tHit == IF tNear > EPSILON THEN tNear ELSE tFar
             IN  IF tHit > EPSILON THEN tHit ELSE -Unit

intersectCylinder(ro, rd) ==
    LET radius == Unit \div 2
        a == SMul(rd[1], rd[1]) + SMul(rd[3], rd[3])
        b == 2 * (SMul(ro[1], rd[1]) + SMul(ro[3], rd[3]))
        c == SMul(ro[1], ro[1]) + SMul(ro[3], ro[3]) - SMul(radius, radius)
        discriminant == SMul(b, b) - 4 * SMul(a, c)
    IN  IF discriminant < 0 \/ Abs(a) < EPSILON THEN -Unit
        ELSE LET sqrtD == SSqrt(discriminant)
                 t1 == SDiv(-b - sqrtD, 2 * a)
                 t2 == SDiv(-b + sqrtD, 2 * a)
                 inY(t) == LET y == ro[2] + SMul(t, rd[2]) IN y >= -radius /\ y <= radius
                 onCap(t) == LET x == ro[1] + SMul(t, rd[1])
                                 z == ro[3] + SMul(t, rd[3])
                             IN  SMul(x, x) + SMul(z, z) <= Unit \div 4
                 valid0 == -Unit
                 valid1 == IF t1 > EPSILON /\ inY(t1) THEN t1 ELSE valid0
                 valid2 == IF valid1 = -Unit /\ t2 > EPSILON /\ inY(t2) THEN t2 ELSE valid1
                 tBottom == SDiv(-radius - ro[2], rd[2])
                 valid3 == IF tBottom > EPSILON /\ (valid2 = -Unit \/ tBottom < valid2)
                                 /\ onCap(tBottom)
                           THEN tBottom ELSE valid2
                 tTop == SDiv(radius - ro[2], rd[2])
                 valid4 == IF tTop > EPSILON /\ (valid3 = -Unit \/ tTop < valid3)
                                 /\ onCap(tTop)
                           THEN tTop ELSE valid3
             IN  IF Abs(rd[2]) > EPSILON THEN valid4 ELSE valid2

\* pow(x, 2.0): GLSL leaves pow undefined for x < 0; a build either squares
\* x or yields NaN (powNaN), given here as the pair [nan, value]
Pow2(x, powNaN) ==
    IF x < 0 /\ powNaN THEN [nan |-> TRUE, value |-> 0]
    ELSE [nan |-> FALSE, value |-> SMul(x, x)]

\* (t_min > EPSILON) ? t_min : -1.0
ConeResult(t_min) == IF t_min > EPSILON THEN t_min ELSE -Unit

intersectCone(ro0, rd, powNaN) ==
    LET ro == << ro0[1], ro0[2] - Unit \div 2, ro0[3] >>
        k_sq == Unit \div 4
        rdy2 == Pow2(rd[2], powNaN)
        roy2 == Pow2(ro[2], powNaN)
        A == dot(rd, rd) - SMul(Unit + k_sq, rdy2.value)
        B == 2 * (dot(rd, ro) - SMul(SMul(Unit + k_sq, rd[2]), ro[2]))
        C == dot(ro, ro) - SMul(Unit + k_sq, roy2.value)
        discriminant == SMul(B, B) - 4 * SMul(A, C)
        inHeight(t) == LET h == ro[2] + SMul(t, rd[2])
                       IN  h <= EPSILON /\ h >= -Unit - EPSILON
        \* a NaN discriminant fails the test > 0.0; with A = 0 the roots are
        \* infinite or NaN and pass no test
        lateral == ~rdy2.nan /\ ~roy2.nan /\ discriminant > 0 /\ A # 0
        t1 == SDiv(-B + SSqrt(discriminant), 2 * A)
        t2 == SDiv(-B - SSqrt(discriminant), 2 * A)
        t_min0 == Big20
        t_min1 == IF lateral /\ t1 > EPSILON /\ inHeight(t1) THEN Min(t_min0, t1) ELSE t_min0
        t_min2 == IF lateral /\ t2 > EPSILON /\ inHeight(t2) THEN Min(t_min1, t2) ELSE t_min1
        S == -rd[2]
        Q == Unit \div 2
        R == -ro0[2]
    IN  IF Abs(S) < EPSILON THEN ConeResult(t_min2)
        ELSE LET t_cap == SDiv(Q - R, S)
                 p == PointAt(ro0, rd, t_cap)
             IN  IF t_cap <= EPSILON \/ t_cap >= t_min2 THEN ConeResult(t_min2)
                 ELSE IF SMul(p[1], p[1]) + SMul(p[3], p[3]) <= k_sq /\ t_cap > EPSILON
                      THEN ConeResult(Min(t_cap, t_min2))
                      ELSE ConeResult(t_min2)

\* the number a scalar of the scene buffer holds
Val(f) == f[1]

\* the element of a one-element set
TheOne(S) == CHOOSE x \in S : TRUE

\* (M * vec4(p, w)).xyz for a mat4 M, M[c][r]
MulVec(M, p, w) ==
    [r \in 1 .. 3 |->
        SMul(Val(M[0][r - 1]), p[1]) + SMul(Val(M[1][r - 1]), p[2])
           + SMul(Val(M[2][r - 1]), p[3]) + SMul(Val(M[3][r - 1]), w)]

\* inverse(M) for the world matrices of the scenes traced here: a scale on
\* the diagonal and a translation in the last column
inverse(M) ==
    [c \in 0 .. 3 |-> [r \in 0 .. 3 |->
        IF c = 3 /\ r < 3 THEN Lit(-SDiv(Val(M[3][r]), Val(M[r][r])))
        ELSE IF c = r /\ r < 3 THEN Lit(SDiv(Unit, Val(M[c][r])))
        ELSE M[c][r]]]

length(v) == SSqrt(dot(v, v))

normalize(v) ==
    LET len == length(v) IN << SDiv(v[1], len), SDiv(v[2], len), SDiv(v[3], len) >>

\* length(hitWorld - ro)
WorldLength(hitWorld, ro) ==
    length(<< hitWorld[1] - ro[1], hitWorld[2] - ro[2], hitWorld[3] - ro[3] >>)

\* sqrt(FLT_MAX) / 1e20, in Unit: the largest factor m for which the square
\* of m * 1e20 is a finite 32-bit float
FloatRangeRoot == 1844

\* length(hitWorld - ro) for t = 1e20: ro and the translation of M vanish in
\* the rounding of hitObj = roObj + 1e20 * rdObj, and the length is that of
\* 1e20 * (M * rdObj), infinite where its square exceeds the float range
FarLength(M, rdObj) ==
    TheOne({ IF m > FloatRangeRoot THEN Infinity ELSE SMul(Big20, m)
             : m \in { length(MulVec(M, rdObj, 0)) } })

\* variant: a tag that matches no primitive is intersected as a sphere
Dispatch_SphereFallback(objectType, t0, roObj, rdObj, powNaN) ==
    IF objectType = 0 THEN intersectCube(roObj, rdObj)
    ELSE IF objectType = Unit THEN intersectCylinder(roObj, rdObj)
    ELSE IF objectType = 2 * Unit THEN intersectCone(roObj, rdObj, powNaN)
    ELSE intersectSphere(roObj, rdObj)

\* float t = t0; the chain of tests objectType == 0.0 ... == 3.0
Dispatch(objectType, t0, roObj, rdObj, powNaN) ==
    IF objectType = 0 THEN intersectCube(roObj, rdObj)
    ELSE IF objectType = Unit THEN intersectCylinder(roObj, rdObj)
    ELSE IF objectType = 2 * Unit THEN intersectCone(roObj, rdObj, powNaN)
    ELSE IF objectType = 3 * Unit THEN intersectSphere(roObj, rdObj)
    ELSE t0

\* object i of the scene buffer against a world-space ray: the distance t
\* of the dispatch and the world-space distance d of the hit point
ObjectHit(u, i, ro, rayDir, t0) ==
    TheOne({ TheOne({ TheOne({ TheOne({ [t |-> t, d |-> d]
        : d \in { IF t >= Big19 THEN FarLength(M, rdObj)
                  ELSE WorldLength(MulVec(M, PointAt(roObj, rdObj, t), Unit), ro) } })
        : t \in { Dispatch(Val(fetchFloat(u.uSceneBuffer, 0, i)), t0, roObj, rdObj,
                           u.powNaN) } })
        : roObj \in { MulVec(invM, ro, Unit) },
          rdObj \in { normalize(MulVec(invM, rayDir, 0)) } })
        : M \in { fetchWorldMatrix(u.uSceneBuffer, i) },
          invM \in { inverse(fetchWorldMatrix(u.uSceneBuffer, i)) } })

MAX_OBJECTS == 256

MAX_LIGHTS == 16

\* variant: the loop ends only when the uniform's count is reached
LoopEnds_CountOnly(k, count, limit) == k >= count

\* for (int k = 0; k < limit; ++k) { if (k >= count) break; ...
LoopEnds(k, count, limit) == k >= limit \/ k >= count

RECURSIVE ClosestFrom(_, _, _, _, _)

\* traceRay: the loop that finds the closest intersection, from object i on
ClosestFrom(u, i, ro, rayDir, best) ==
    IF LoopEnds(i, u.uObjectCount, MAX_OBJECTS) THEN best
    ELSE TheOne({ ClosestFrom(u, i + 1, ro, rayDir,
                      IF h.t < EPSILON THEN best
                      ELSE IF h.d > EPSILON /\ h.d < best.closestD
                           THEN [closestD |-> h.d, hitIndex |-> i]
                           ELSE best)
                  : h \in { ObjectHit(u, i, ro, rayDir, 0) } })

\* traceRay up to the choice of hitIndex (-1: the background colour)
traceRay(u, ro, rayDir) ==
    ClosestFrom(u, 0, ro, rayDir, [closestD |-> Big20, hitIndex |-> -1])

RECURSIVE ShadowFrom(_, _, _, _, _, _)

ShadowFrom(u, i, shadowOrigin, lightDir, maxDist, ignoreIndex) ==
    IF LoopEnds(i, u.uObjectCount, MAX_OBJECTS) THEN FALSE
    ELSE IF i = ignoreIndex
         THEN ShadowFrom(u, i + 1, shadowOrigin, lightDir, maxDist, ignoreIndex)
    ELSE \E h \in { ObjectHit(u, i, shadowOrigin, lightDir, -Unit) } :
             IF h.t > EPSILON /\ h.d > EPSILON /\ h.d < maxDist THEN TRUE
             ELSE ShadowFrom(u, i + 1, shadowOrigin, lightDir, maxDist, ignoreIndex)

isInShadow(u, shadowOrigin, lightDir, maxDist, ignoreIndex) ==
    ShadowFrom(u, 0, shadowOrigin, lightDir, maxDist, ignoreIndex)

(***************************************************************************)
(* The ray code on its own: one ray, one scene buffer, one call.           *)
(***************************************************************************)

\* coordinates of the ray origins, in Unit
OriginCoords == { -2 * Unit, Unit \div 10, 2 * Unit }

Origins == { << x, y, z >> : x \in OriginCoords, y \in OriginCoords, z \in OriginCoords }

\* unit directions: the six axes and three 3-4-5 diagonals
Directions ==
    { << Unit, 0, 0 >>, << -Unit, 0, 0 >>, << 0, Unit, 0 >>, << 0, -Unit, 0 >>,
      << 0, 0, Unit >>, << 0, 0, -Unit >>,
      << 0, -(4 * Unit) \div 5, (3 * Unit) \div 5 >>,
      << (3 * Unit) \div 5, 0, -(4 * Unit) \div 5 >>,
      << -(3 * Unit) \div 5, -(4 * Unit) \div 5, 0 >> }

\* type tags a scene buffer row can carry: the primitives the scenes here
\* use (cube, cylinder, sphere) and tags that name no primitive
KnownTags == { 0, Unit, 2 * Unit, 3 * Unit }

ProbeTags == { 0, Unit, 3 * Unit, 4 * Unit, -Unit, Unit \div 2 }

\* one flattened object: tag, row-major matrix of a uniform scale and a
\* translation, zero material
ProbeObject(tag, pos, scale) ==
    << Lit(tag) >>
      \o << Lit(scale), Lit(0), Lit(0), Lit(pos[1]),
            Lit(0), Lit(scale), Lit(0), Lit(pos[2]),
            Lit(0), Lit(0), Lit(scale), Lit(pos[3]),
            Lit(0), Lit(0), Lit(0), Lit(Unit) >>
      \o [k \in 1 .. (FieldsWritten - 17) |-> Lit(0)]

\* the second object of a scene: a tag at full size, or a cone or a sphere
\* a tenth the size
ProbeSeconds ==
    { << tag, Unit >> : tag \in ProbeTags }
      \cup { << 2 * Unit, Unit \div 10 >>, << 3 * Unit, Unit \div 10 >> }

\* the uniforms of a draw: the scene buffer of two objects, the first at
\* the origin and the second in front of it, and the object count
ProbeUniforms(tag0, tag1, scale1) ==
    [uSceneBuffer |->
        texImage2D((FieldsWritten + 1) \div 4, 2,
                   CopyObjects(<< ProbeObject(tag0, << 0, 0, 0 >>, Unit),
                                  ProbeObject(tag1, << 0, 0, (4 * Unit) \div 5 >>,
                                              scale1) >>,
                               2, FieldsWritten, FieldsWritten + 1, 2)),
     uObjectCount |-> 2]

ShaderInit ==
    /\ HostAtRest
    /\ exporter = NoExporter
    /\ detector = NoDetector
    /\ \E ro \in Origins, rd \in Directions, powNaN \in BOOLEAN,
          tag0 \in KnownTags \ { 2 * Unit }, second \in ProbeSeconds :
          shade = [op |-> "ray", ro |-> ro, rd |-> rd, powNaN |-> powNaN,
                   tag0 |-> tag0, tag1 |-> second[1], scale1 |-> second[2]]

\* the uniforms of the run, with the build's pow
Uniforms(sh) ==
    LET u == ProbeUniforms(sh.tag0, sh.tag1, sh.scale1)
    IN  [uSceneBuffer |-> u.uSceneBuffer, uObjectCount |-> u.uObjectCount,
         powNaN |-> sh.powNaN]

Ran(op, result) ==
    shade' = [op |-> op, ro |-> shade.ro, rd |-> shade.rd, powNaN |-> shade.powNaN,
              tag0 |-> shade.tag0, tag1 |-> shade.tag1, scale1 |-> shade.scale1,
              result |-> result]

RunIntersectSphere ==
    /\ shade.op = "ray"
    /\ Ran("intersectSphere", intersectSphere(shade.ro, shade.rd))
    /\ UNCHANGED << hostVars, exporter, detector >>

RunIntersectCube ==
    /\ shade.op = "ray"
    /\ Ran("intersectCube", intersectCube(shade.ro, shade.rd))
    /\ UNCHANGED << hostVars, exporter, detector >>

RunIntersectCylinder ==
    /\ shade.op = "ray"
    /\ Ran("intersectCylinder", intersectCylinder(shade.ro, shade.rd))
    /\ UNCHANGED << hostVars, exporter, detector >>

RunIntersectCone ==
    /\ shade.op = "ray"
    /\ Ran("intersectCone", intersectCone(shade.ro, shade.rd, shade.powNaN))
    /\ UNCHANGED << hostVars, exporter, detector >>

RunTraceRay ==
    /\ shade.op = "ray"
    /\ \E u \in { Uniforms(shade) } : Ran("traceRay", traceRay(u, shade.ro, shade.rd))
    /\ UNCHANGED << hostVars, exporter, detector >>

\* the light of a shadow ray is as far as the scene reaches
ShadowReach == 8 * Unit

\* distToLight: the distance of a point light, 1e20 for a directional light
LightDistances == { ShadowReach, Big20 }

RunIsInShadow ==
    /\ shade.op = "ray"
    /\ \E ignoreIndex \in { -1, 0 }, maxDist \in LightDistances, u \in { Uniforms(shade) } :
          Ran("isInShadow", [ignoreIndex |-> ignoreIndex, maxDist |-> maxDist,
                             shadowed |-> isInShadow(u, shade.ro, shade.rd,
                                                     maxDist, ignoreIndex)])
    /\ UNCHANGED << hostVars, exporter, detector >>

ShaderNext ==
    \/ RunIntersectSphere
    \/ RunIntersectCube
    \/ RunIntersectCylinder
    \/ RunIntersectCone
    \/ RunTraceRay
    \/ RunIsInShadow

ShaderSpec == ShaderInit /\ [][ShaderNext]_vars

(***************************************************************************)
(* One per-pixel invocation, loop iteration by loop iteration: the primary *)
(* scan of traceRay, its light loop, and the scan of isInShadow for each   *)
(* light.  What an intersection test answers is an input.                  *)
(***************************************************************************)

\* values of the uniform uObjectCount
ObjectCounts == { -1, 0, 2, MAX_OBJECTS + 44 }

\* values of the uniform uNumLights
LightCounts == { -1, 0, 1, MAX_LIGHTS + 4 }

\* the rows whose object a ray of the invocation can meet
Occluders == { 0, 1, MAX_OBJECTS - 1 }

PixelInit ==
    /\ HostAtRest
    /\ exporter = NoExporter
    /\ detector = NoDetector
    /\ \E uObjectCount \in ObjectCounts, uNumLights \in LightCounts :
          shade = [op |-> "scan", uObjectCount |-> uObjectCount, uNumLights |-> uNumLights,
                   i |-> 0, hitIndex |-> -1, li |-> 0, si |-> 0]

\* traceRay: the closest-intersection loop has tested every object it can
ScanDone ==
    /\ shade.op = "scan"
    /\ LoopEnds(shade.i, shade.uObjectCount, MAX_OBJECTS)
    /\ shade' = [shade EXCEPT !.op = IF shade.hitIndex < 0 THEN "done" ELSE "lights"]
    /\ UNCHANGED << hostVars, exporter, detector >>

\* traceRay: one iteration of the closest-intersection loop
ScanObject ==
    /\ shade.op = "scan"
    /\ ~LoopEnds(shade.i, shade.uObjectCount, MAX_OBJECTS)
    /\ \E closer \in IF shade.i \in Occluders THEN BOOLEAN ELSE { FALSE } :
          shade' = [shade EXCEPT !.i = @ + 1,
                                 !.hitIndex = IF closer THEN shade.i ELSE @]
    /\ UNCHANGED << hostVars, exporter, detector >>

\* traceRay: the light loop has evaluated every light it can
LightsDone ==
    /\ shade.op = "lights"
    /\ LoopEnds(shade.li, shade.uNumLights, MAX_LIGHTS)
    /\ shade' = [shade EXCEPT !.op = "done"]
    /\ UNCHANGED << hostVars, exporter, detector >>

\* traceRay: one iteration of the light loop up to the call of isInShadow;
\* a point light at distance 0 is passed over
LightStart ==
    /\ shade.op = "lights"
    /\ ~LoopEnds(shade.li, shade.uNumLights, MAX_LIGHTS)
    /\ \E atOrigin \in BOOLEAN :
          shade' = IF atOrigin THEN [shade EXCEPT !.li = @ + 1]
                   ELSE [shade EXCEPT !.op = "shadow", !.si = 0]
    /\ UNCHANGED << hostVars, exporter, detector >>

\* isInShadow: the loop has tested every object it can and returns false;
\* the light is shaded
ShadowScanDone ==
    /\ shade.op = "shadow"
    /\ LoopEnds(shade.si, shade.uObjectCount, MAX_OBJECTS)
    /\ shade' = [shade EXCEPT !.op = "lights", !.li = @ + 1]
    /\ UNCHANGED << hostVars, exporter, detector >>

\* isInShadow: one iteration of the loop; an object other than the shaded
\* one that the shadow ray meets ends the call with true
ShadowObject ==
    /\ shade.op = "shadow"
    /\ ~LoopEnds(shade.si, shade.uObjectCount, MAX_OBJECTS)
    /\ \E occludes \in IF shade.si \in Occluders \ { shade.hitIndex }
                         THEN BOOLEAN ELSE { FALSE } :
          shade' = IF occludes THEN [shade EXCEPT !.op = "lights", !.li = @ + 1]
                   ELSE [shade EXCEPT !.si = @ + 1]
    /\ UNCHANGED << hostVars, exporter, detector >>

PixelNext ==
    \/ ScanDone
    \/ ScanObject
    \/ LightsDone
    \/ LightStart
    \/ ShadowScanDone
    \/ ShadowObject

\* the invocation runs on: a shader invocation is not suspended
PixelSpec == PixelInit /\ [][PixelNext]_vars /\ WF_vars(PixelNext)

(***************************************************************************)
(* poseExporter.js: a PoseExporter on its own, under any sequence of calls *)
(* of exportPose and setEnabled.  The timestamp of a call is               *)
(* performance.now(), here the number of the call.                         *)
(***************************************************************************)

\* variant: the enabled flag is not looked at
ShouldExport_EnabledIgnored(this, result) == Len(result.landmarks) # 0

\* the negation of the early return: enabled, and the result has landmarks
ShouldExport(this, result) == this.enabled /\ Len(result.landmarks) # 0

\* exportPose(result, timestamp): the fields of the exporter and the details
\* of the pose-data events dispatched so far
exportPose(this, result, timestamp) ==
    IF ~ShouldExport(this, result) THEN this
    ELSE [this EXCEPT
            !.frameCount = @ + 1,
            !.dispatched =
                Append(@, [timestamp |-> timestamp,
                           frameCount |-> ExportPoseData(result, this.frameCount).frameCount,
                           persons |-> Len(ExportPoseData(result, this.frameCount).poses)]),
            !.lastExportTime = timestamp]

setEnabled(this, enabled) == [this EXCEPT !.enabled = enabled]

\* what a call found: the fields before it and whether it could export
Called(this, op, exports) ==
    [op |-> op, exports |-> exports, frameCount |-> this.frameCount,
     lastExportTime |-> this.lastExportTime, events |-> Len(this.dispatched)]

ExporterInit ==
    /\ HostAtRest
    /\ shade = NoShade
    /\ detector = NoDetector
    /\ \E enabled \in BOOLEAN :
          exporter = [enabled |-> enabled, frameCount |-> 0, lastExportTime |-> 0,
                      dispatched |-> << >>, calls |-> 0,
                      call |-> [op |-> "new", exports |-> FALSE, frameCount |-> 0,
                                lastExportTime |-> 0, events |-> 0]]

CallExportPose ==
    /\ exporter.calls < MaxExportCalls
    /\ \E result \in PoseResults :
          exporter' = [exportPose(exporter, result, exporter.calls + 1) EXCEPT
                          !.calls = @ + 1,
                          !.call = Called(exporter, "exportPose",
                                          exporter.enabled /\ Len(result.landmarks) # 0)]
    /\ UNCHANGED << hostVars, shade, detector >>

CallSetEnabled ==
    /\ exporter.calls < MaxExportCalls
    /\ \E enabled \in BOOLEAN :
          exporter' = [setEnabled(exporter, enabled) EXCEPT
                          !.calls = @ + 1,
                          !.call = Called(exporter, "setEnabled", FALSE)]
    /\ UNCHANGED << hostVars, shade, detector >>

ExporterNext ==
    \/ CallExportPose
    \/ CallSetEnabled

ExporterSpec == ExporterInit /\ [][ExporterNext]_vars

(***************************************************************************)
(* controls.js: the PoseDetector's webcam loop.  enableCam runs on a click *)
(* of the webcam button (the listener is added once poseLandmarker is      *)
(* set); predictWebcam is an async function, in flight from its call to    *)
(* its last statement, across its awaits.                                  *)
(***************************************************************************)
DetectorInit ==
    /\ HostAtRest
    /\ shade = NoShade
    /\ exporter = NoExporter
    /\ \E hasCanvas \in BOOLEAN :
          detector = [webcamRunning |-> FALSE,
                      hasCanvas |-> hasCanvas,  \* this.video and this.canvasElement found
                      clicks |-> 0,
                      pendingStreams |-> 0,     \* getUserMedia promises not yet resolved
                      listeners |-> 0,          \* "loadeddata" listeners on the video
                      streamLoading |-> FALSE,  \* srcObject set, loadeddata not yet fired
                      running |-> 0,            \* calls of predictWebcam in flight
                      raf |-> 0,                \* predictWebcam callbacks queued
                      callsSinceDisable |-> 0]  \* calls begun since webcamRunning was cleared

\* n calls of predictWebcam begin; without video or canvas they return at once
PredictWebcamBegins(d, n) ==
    IF ~d.hasCanvas THEN d
    ELSE [d EXCEPT !.running = @ + n,
                   !.callsSinceDisable = IF d.webcamRunning THEN @ ELSE @ + n]

\* enableCam: a click on the webcam button
enableCam ==
    /\ detector.clicks < MaxClicks
    /\ detector' =
          IF detector.webcamRunning
          THEN [detector EXCEPT !.clicks = @ + 1, !.webcamRunning = FALSE,
                                !.streamLoading = FALSE, !.callsSinceDisable = 0]
          ELSE [detector EXCEPT !.clicks = @ + 1, !.webcamRunning = TRUE,
                                !.pendingStreams = @ + 1]
    /\ UNCHANGED << hostVars, shade, exporter >>

\* enableCam: getUserMedia(...).then((stream) => ...)
StreamGranted ==
    /\ detector.pendingStreams > 0
    /\ detector' = [detector EXCEPT !.pendingStreams = @ - 1, !.streamLoading = TRUE,
                                    !.listeners = @ + 1]
    /\ UNCHANGED << hostVars, shade, exporter >>

\* the video fires loadeddata: every listener added so far calls predictWebcam
LoadedData ==
    /\ detector.streamLoading
    /\ detector' = PredictWebcamBegins([detector EXCEPT !.streamLoading = FALSE],
                                       detector.listeners)
    /\ UNCHANGED << hostVars, shade, exporter >>

\* predictWebcam: its last statement
PredictWebcamEnds ==
    /\ detector.running > 0
    /\ detector' = [detector EXCEPT !.running = @ - 1,
                                    !.raf = IF detector.webcamRunning THEN @ + 1 ELSE @]
    /\ UNCHANGED << hostVars, shade, exporter >>

\* a callback queued by requestAnimationFrame(() => this.predictWebcam())
AnimationFrame ==
    /\ detector.raf > 0
    /\ detector' = PredictWebcamBegins([detector EXCEPT !.raf = @ - 1], 1)
    /\ UNCHANGED << hostVars, shade, exporter >>

DetectorNext ==
    \/ enableCam
    \/ StreamGranted
    \/ LoadedData
    \/ PredictWebcamEnds
    \/ AnimationFrame

DetectorSpec == DetectorInit /\ [][DetectorNext]_vars

(***************************************************************************)
(* Properties.                                                             *)
(***************************************************************************)
Has(log, what) == \E n \in DOMAIN log : log[n] = what

\* rows of the flattened scene as createSceneDataTexture lays them out
LoadedRows(scene) ==
    [r \in 1 .. scene.objectCount |->
        getFloat32Array(scene)[r] \o Zeros(floatsPerRow - scene.floatsPerObject)]

InSkeletonRegion(r) ==
    r - 1 >= poseObjectStartIndex /\ r - 1 < poseObjectStartIndex + poseObjectCount

\* C1: once a scene texture exists, a step that is not a scene load (pose
\* event, render frame with its updatePoseObjects call, any other handler)
\* changes no row of the scene texture outside
\* [poseObjectStartIndex, poseObjectStartIndex + 22), and the static rows
\* [0, baseObjectCount) always hold what the load wrote: the flattened
\* objects of a scene file.
C1_OnlySkeletonRowsWritten ==
    /\ [](sceneTexture # 0 =>
            \E scene \in Scenes :
                /\ baseObjectCount = scene.objectCount
                /\ SubSeq(gpu.data, 1, baseObjectCount) = LoadedRows(scene))
    /\ [][sceneTexture' = sceneTexture =>
            /\ Len(gpu'.data) = Len(gpu.data)
            /\ \A r \in 1 .. Len(gpu.data) :
                   (~InSkeletonRegion(r) \/ r <= baseObjectCount)
                      => gpu'.data[r] = gpu.data[r]]_vars

\* a frame has just uploaded a posed skeleton below a static region
C1_Witness ==
    /\ Has(frame.log, "texSubImage2D")
    /\ baseObjectCount >= 1
    /\ gpu.data[poseObjectStartIndex + 1][2] # IdentityEntry(0)
    /\ gpu.data[1] = LoadedRows(GoodScene(1))[1]

\* C2: in every state, whatever poseDataArray and the skeleton rows hold,
\* a second call of updatePoseObjects with the same pose data leaves
\* poseDataArray and the scene texture exactly as the first call left them.
C2_UpdateIdempotent ==
    \A once \in { updatePoseObjects(PoseFields, lastPoseData) } :
        \A twice \in { updatePoseObjects(once.this, lastPoseData) } :
            /\ twice.this.poseDataArray = once.this.poseDataArray
            /\ twice.this.gpu = once.this.gpu
            /\ twice.uploaded = once.uploaded

\* a frame has just re-run the update on rows an earlier frame had already
\* posed from the same data
C2_Witness ==
    /\ Has(frame.log, "texSubImage2D")
    /\ ~frame.newData
    /\ lastPoseData # NoPose
    /\ poseDataArray[1][2] # IdentityEntry(0)

Count(log, what) == Cardinality({ n \in DOMAIN log : log[n] = what })

Pos(log, what) == CHOOSE n \in DOMAIN log : log[n] = what

Resized(log) == IF Has(log, "viewport") THEN "viewport" ELSE "resizeCheck"

UniformSteps == << "uResolution", "camera", "global", "metadata", "lights" >>

\* C3: a frame that reaches the draw has done, once each and in this
\* order: the resize check (first of all), the skeleton update with its
\* upload if there is one, the uniforms resolution, camera, global
\* coefficients, scene metadata, lights, and the draw (last of all).
C3_FrameStepOrder ==
    Has(frame.log, "draw") =>
        /\ Count(frame.log, "viewport") + Count(frame.log, "resizeCheck") = 1
        /\ Pos(frame.log, Resized(frame.log)) = 1
        /\ Count(frame.log, "updatePoseObjects") <= 1
        /\ Count(frame.log, "texSubImage2D") <= Count(frame.log, "updatePoseObjects")
        /\ Has(frame.log, "texSubImage2D") =>
               Pos(frame.log, "texSubImage2D") = Pos(frame.log, "updatePoseObjects") + 1
        /\ \A k \in DOMAIN UniformSteps : Count(frame.log, UniformSteps[k]) = 1
        /\ \A k \in DOMAIN UniformSteps :
               /\ Has(frame.log, "updatePoseObjects") =>
                      Pos(frame.log, "updatePoseObjects") < Pos(frame.log, UniformSteps[k])
               /\ Has(frame.log, "texSubImage2D") =>
                      Pos(frame.log, "texSubImage2D") < Pos(frame.log, UniformSteps[k])
               /\ k > 1 => Pos(frame.log, UniformSteps[k - 1]) < Pos(frame.log, UniformSteps[k])
        /\ Count(frame.log, "draw") = 1
        /\ Pos(frame.log, "draw") = Len(frame.log)

\* a frame that resized the canvas, uploaded the skeleton and drew
C3_Witness ==
    /\ Has(frame.log, "draw")
    /\ Has(frame.log, "viewport")
    /\ Has(frame.log, "texSubImage2D")

LoadInFlight == \E i \in DOMAIN loads : loads[i].pc \in { "reading", "parsing", "fetching" }

\* C4: in a frame that draws, the scene texture is not written after it is
\* bound for the draw (a skeleton upload, if any, precedes the binding and
\* every uniform upload behind it), and the texture contents the draw reads
\* are the contents bound; the handlers of pose events and scene loads run
\* as tasks of their own, before or after the frame.
C4_NoWriteBeforeDraw ==
    Has(frame.log, "draw") =>
        /\ frame.drawnAsBound
        /\ Has(frame.log, "uSceneBuffer")
        /\ \A n \in DOMAIN frame.log :
               frame.log[n] = "texSubImage2D" => n < Pos(frame.log, "uSceneBuffer")

\* a frame uploaded the skeleton and drew while a scene load was under way
C4_Witness ==
    /\ Has(frame.log, "draw")
    /\ Has(frame.log, "texSubImage2D")
    /\ LoadInFlight
    /\ frame.newData

StartUpDone == \A k \in 1 .. 2 : initPc[k] \in { "done", "failed", "nogl" }

\* C5: once start-up is over (the constructor and the load handler have run
\* and every init call has finished) with WebGL and the shaders available,
\* exactly one render-loop callback is queued or running, so a display
\* refresh runs renderFrame once.
C5_OneRenderLoop ==
    (StartUpDone /\ glOk /\ shaderOk) => rafPending + batch = 1

\* C6: a frame recomputes and uploads the skeleton only if there is
\* something new to apply: pose data received, or a scene texture built,
\* since the last skeleton upload (frame.newData); a frame with nothing new
\* performs no recompute and no upload.
C6_UpdateOnlyOnNewData ==
    (Has(frame.log, "updatePoseObjects") \/ Has(frame.log, "texSubImage2D")) => frame.newData

\* C7: a frame that gets as far as the skeleton step reads the pose data
\* once, and what it reads is the detail of the pose-data event dispatched
\* last (nothing if no event was dispatched yet); a frame whose callback is
\* due runs to its end in that task with the data the renderer holds,
\* whether or not a new landmark frame has arrived since it was last used.
C7_LatestPoseUsed ==
    /\ [](/\ Len(frame.usedPose) <= 1
          /\ Has(frame.log, "useProgram") =>
                 frame.usedPose =
                    IF lastDispatched = NoPose THEN << >> ELSE << lastDispatched >>)
    /\ [][batch > 0 =>
            /\ batch' = batch - 1
            /\ Len(frame'.log) > 0
            /\ (sceneReady /\ lastPoseData # NoPose) =>
                   (frame'.usedPose = << lastPoseData >> /\ Has(frame'.log, "draw"))]_vars

\* a frame posed the skeleton again from the second of two events, no event
\* having arrived since the frame before
C7_Witness ==
    /\ frameCount = 2
    /\ Len(frame.usedPose) = 1
    /\ frame.usedPose[1].frameCount = 1
    /\ Has(frame.log, "texSubImage2D")
    /\ ~frame.newData

SkeletonRow(i) == gpu.data[poseObjectStartIndex + i + 1]

DefaultColour(type) ==
    IF type = "head" THEN << << 10000 >>, << 8000 >>, << 6000 >> >>
    ELSE IF type = "torso" THEN << << 2000 >>, << 4000 >>, << 8000 >> >>
    ELSE IF type = "joint" THEN << << 9000 >>, << 9000 >>, << 9000 >> >>
    ELSE << << 6000 >>, << 6000 >>, << 6000 >> >>

\* C8: as long as no pose-data event has been received, every one of the
\* 22 skeleton rows of a loaded scene texture holds the identity matrix at
\* +1..+16 and the default diffuse colour of its part type at +20..+22
\* (values in units of 1/10000), however many frames were rendered.
C8_DefaultSkeletonWithoutPose ==
    (lastPoseData = NoPose /\ sceneTexture # 0) =>
        \A i \in 0 .. 21 :
            /\ SubSeq(SkeletonRow(i), 2, 17) =
                  << << 10000 >>, << 0 >>, << 0 >>, << 0 >>,
                     << 0 >>, << 10000 >>, << 0 >>, << 0 >>,
                     << 0 >>, << 0 >>, << 10000 >>, << 0 >>,
                     << 0 >>, << 0 >>, << 0 >>, << 10000 >> >>
            /\ SubSeq(SkeletonRow(i), 21, 23) = DefaultColour(skeletonStructure[i + 1].type)

\* a loaded scene has been drawn by both render loops with no pose event
\* received
C8_Witness ==
    /\ lastPoseData = NoPose
    /\ sceneTexture # 0
    /\ Has(frame.log, "draw")
    /\ uniformsLogged
    /\ ~Has(frame.log, "updatePoseObjects")
    /\ rafPending + batch = 2

\* the landmark list updatePoseObjects takes from a pose-data record
ChosenLandmarks(poseData) ==
    IF Len(poseData.poses[1].worldLandmarks) > 0
    THEN poseData.poses[1].worldLandmarks
    ELSE poseData.poses[1].landmarks

Missing(landmarks, i) == i >= Len(landmarks) \/ ~landmarks[i + 1].present

EndMissing(landmarks, end) == \A n \in DOMAIN end.ix : Missing(landmarks, end.ix[n])

IsSphere(part) == part.primitive = SHAPE_SPHERE

\* the part has no usable data in the frame
LacksData(part, landmarks) ==
    \/ Len(landmarks) < 33
    \/ IsSphere(part) /\ EndMissing(landmarks, part.landmark)
    \/ ~IsSphere(part) /\ \E n \in DOMAIN part.from.ix : Missing(landmarks, part.from.ix[n])
    \/ ~IsSphere(part) /\ \E n \in DOMAIN part.to.ix : Missing(landmarks, part.to.ix[n])

\* matrix entries of skeleton part i in an array of skeleton rows
PartPose(arr, i) == SubSeq(arr[i + 1], 2, 17)

\* a frame is about to hand the pose data to updatePoseObjects
PoseFrameDue == batch > 0 /\ sceneReady /\ sceneTexture # 0 /\ lastPoseData # NoPose

C10_PoseStartIndexFixed ==
    /\ [](sceneTexture # 0 =>
            /\ poseObjectStartIndex = baseObjectCount
            /\ poseObjectStartIndex = objectCount - 22
            /\ poseObjectStartIndex = Len(gpu.data) - 22
            /\ \E scene \in Scenes :
                   /\ poseObjectStartIndex = scene.objectCount
                   /\ gpu.data[poseObjectStartIndex] = LoadedRows(scene)[scene.objectCount])
    /\ [][sceneTexture' = sceneTexture => poseObjectStartIndex' = poseObjectStartIndex]_vars
    /\ [][sceneTexture' # sceneTexture =>
            /\ sceneTexture' = sceneTexture + 1
            /\ \E i \in DOMAIN loads :
                   /\ loads[i].pc = "parsing"
                   /\ loads'[i].pc = "fetching"
                   /\ poseObjectStartIndex' = loads'[i].root.objectCount]_vars

\* after a reload with a different number of objects, with pose data
\* present, a frame has uploaded the skeleton
C10_Witness ==
    /\ sceneTexture >= 2
    /\ poseObjectStartIndex = 2
    /\ Has(frame.log, "texSubImage2D")
    /\ frameCount >= 1

\* part k of the skeleton region as the specification lists it
ReservedKind(k) ==
    IF k = 0 THEN "head" ELSE IF k = 1 THEN "torso" ELSE IF k <= 13 THEN "joint" ELSE "bone"

ReservedTag(k) == IF k = 1 \/ k > 13 THEN << 10000 >> ELSE << 30000 >>

\* a load has just built a scene texture from the scene of load i
JustBuilt(i) == loads[i].pc = "parsing" /\ loads'[i].pc = "fetching"

\* C11: the step of a load that builds the scene texture from a scene of N
\* objects leaves a texture of exactly N + 22 rows (and objectCount and
\* texHeight of N + 22) whose rows N..N+21 are, in order, 1 head sphere
\* (tag 3), 1 torso cylinder (tag 1), 12 joint spheres and 8 bone cylinders,
\* each with the identity matrix at +1..+16 and the default diffuse colour
\* of its kind at +20..+22, whatever pose data the renderer already holds.
C11_LoadAppendsSkeleton ==
    [][sceneTexture' # sceneTexture =>
          \E i \in DOMAIN loads :
              /\ JustBuilt(i)
              /\ LET N == loads'[i].root.objectCount
                 IN  /\ Len(gpu'.data) = N + 22
                     /\ gpu'.height = N + 22
                     /\ objectCount' = N + 22
                     /\ texHeight' = N + 22
                     /\ \A k \in 0 .. 21 :
                            LET row == gpu'.data[N + k + 1]
                            IN  /\ row[1] = ReservedTag(k)
                                /\ \A j \in 0 .. 15 :
                                       row[2 + j] = IF j \in { 0, 5, 10, 15 }
                                                    THEN << 10000 >> ELSE << 0 >>
                                /\ SubSeq(row, 21, 23) = DefaultColour(ReservedKind(k))]_vars

\* a scene of two objects has just been loaded over a posed skeleton: the
\* 22 rows behind its objects are back at the default
C11_Witness ==
    /\ \E i \in DOMAIN loads : loads[i].pc = "fetching" /\ loads[i].root.objectCount = 2
    /\ sceneTexture >= 2
    /\ lastPoseData # NoPose
    /\ Len(gpu.data) = 24
    /\ gpu.data[3][1] = << 30000 >>
    /\ gpu.data[4][1] = << 10000 >>
    /\ SubSeq(gpu.data[3], 21, 23) = << << 10000 >>, << 8000 >>, << 6000 >> >>

\* C12: in the texture of a loaded scene floatsPerRow is the smallest
\* multiple of 4 that is >= floatsPerObject and every row holds exactly
\* floatsPerRow scalars (texWidth texels of 4).  Static row r holds the
\* floatsPerObject fields of object r from its first scalar on, a skeleton
\* row the 35 fields of its part (its tag first), and every scalar behind
\* the fields is zero; the same is true of the skeleton rows held in
\* poseDataArray, before and after any number of pose updates.
C12_RowsPaddedAndAligned ==
    sceneTexture # 0 =>
        /\ floatsPerRow % 4 = 0
        /\ floatsPerRow >= floatsPerObject
        /\ floatsPerRow - 4 < floatsPerObject
        /\ gpu.width * 4 = floatsPerRow
        /\ texWidth * 4 = floatsPerRow
        /\ \A r \in 1 .. Len(gpu.data) : Len(gpu.data[r]) = floatsPerRow
        /\ \A r \in 1 .. Len(poseDataArray) : Len(poseDataArray[r]) = floatsPerRow
        /\ \E scene \in Scenes :
               /\ scene.objectCount = baseObjectCount
               /\ scene.floatsPerObject = floatsPerObject
               /\ \A r \in 1 .. baseObjectCount :
                      /\ SubSeq(gpu.data[r], 1, floatsPerObject) = getFloat32Array(scene)[r]
                      /\ \A c \in (floatsPerObject + 1) .. floatsPerRow :
                             gpu.data[r][c] = << 0 >>
        /\ \A k \in 0 .. 21 :
               /\ SkeletonRow(k)[1] = ReservedTag(k)
               /\ \A c \in 36 .. floatsPerRow :
                      SkeletonRow(k)[c] = << 0 >> /\ poseDataArray[k + 1][c] = << 0 >>

\* rows of 36 scalars, two static objects, the skeleton posed by a frame
C12_Witness ==
    /\ sceneTexture # 0
    /\ floatsPerObject = 35
    /\ floatsPerRow = 36
    /\ baseObjectCount = 2
    /\ Has(frame.log, "texSubImage2D")
    /\ SkeletonRow(0)[2] # << 10000 >>

\* the scene file whose flattened objects the static rows were built from
BuiltFrom(scene) ==
    /\ scene.objectCount = baseObjectCount
    /\ scene.floatsPerObject = floatsPerObject
    /\ \A r \in 1 .. baseObjectCount :
           gpu.data[r][2] = getFloat32Array(scene)[r][2]

C14_MismatchIsFatal ==
    /\ \A i \in DOMAIN loads :
           loads[i].pc \in { "fetching", "done" } => loads[i].root.floatsPerObject = 35
    /\ Has(frame.log, "draw") => floatsPerObject = 35

\* persons a detection result may hold behind the first one
OtherPersons ==
    { << >>,
      SubSeq(ExportPoseData(Result(<< ShortFrame, FullFrame(2) >>, FALSE, << >>), 0).poses,
             2, 2),
      SubSeq(ExportPoseData(Result(<< ShortFrame, HoleFrame, FullFrame(0) >>, TRUE,
                                   << ShortFrame, FullFrame(2), WorldFrame >>), 0).poses,
             2, 3) }

\* C15: in every state, replacing poses[1..] of the pose data the renderer
\* holds by any other persons (none, one without world landmarks, two with
\* them) while poses[0] stays changes nothing in what updatePoseObjects
\* leaves in poseDataArray and in the scene texture.
C15_OnlyFirstPerson ==
    (lastPoseData # NoPose /\ sceneTexture # 0) =>
        \A ref \in { updatePoseObjects(PoseFields, lastPoseData) } :
            \A others \in OtherPersons :
                \A alt \in { updatePoseObjects(PoseFields,
                                 [lastPoseData EXCEPT
                                    !.poses = << lastPoseData.poses[1] >> \o others]) } :
                    /\ alt.this.poseDataArray = ref.this.poseDataArray
                    /\ alt.this.gpu = ref.this.gpu
                    /\ alt.uploaded = ref.uploaded

\* a frame has posed the skeleton from pose data of two persons whose
\* landmarks differ
C15_Witness ==
    /\ Has(frame.log, "texSubImage2D")
    /\ Len(lastPoseData.poses) = 2
    /\ frame.usedPose = << lastPoseData >>
    /\ lastPoseData.poses[2].worldLandmarks # lastPoseData.poses[1].worldLandmarks
    /\ Len(lastPoseData.poses[2].landmarks) < 33

\* the two anchors are less than 0.001 apart (10 units of 1/10000)
Near(a, b) ==
    /\ \A c \in 1 .. 3 : a[c] - b[c] < 10 /\ b[c] - a[c] < 10
    /\ (a[1] - b[1]) * (a[1] - b[1]) + (a[2] - b[2]) * (a[2] - b[2])
          + (a[3] - b[3]) * (a[3] - b[3]) < 100

\* scale 0.001 on the diagonal, translation (1000, 1000, 1000), last row 0 0 0 1
HiddenPose ==
    << << 10 >>, << 0 >>, << 0 >>, << 10000000 >>,
       << 0 >>, << 10 >>, << 0 >>, << 10000000 >>,
       << 0 >>, << 0 >>, << 10 >>, << 10000000 >>,
       << 0 >>, << 0 >>, << 0 >>, << 10000 >> >>

\* displacements of the second anchor around the 0.001 limit
Offsets ==
    { << 0, 0, 0 >>, << 9, 0, 0 >>, << 0, -9, 0 >>, << 5, 5, 5 >>, << -5, 5, -7 >>,
      << 6, 6, 6 >>, << 11, 0, 0 >>, << 0, 0, -12 >>, << 8, 7, 0 >>, << 20000, 0, 0 >> }

\* C16: in a frame that poses the skeleton, every cylinder part (torso,
\* bones) whose two anchors are less than 0.001 apart, identical anchors
\* included, gets exactly the hide matrix in poseDataArray and in its row
\* of the scene texture: 16 plain finite numbers, none of them an entry
\* computed from the direction and the length; and createCylinderMatrix
\* gives the hide matrix for every pair of anchors closer than 0.001 and
\* for no pair 0.001 or more apart.
C16_DegenerateBoneHidden ==
    [][(PoseFrameDue /\ Len(ChosenLandmarks(lastPoseData)) >= 33) =>
          /\ \A i \in 0 .. 21 :
                 LET part == skeletonStructure[i + 1]
                     landmarks == ChosenLandmarks(lastPoseData)
                     useWorld == Len(lastPoseData.poses[1].worldLandmarks) > 0
                 IN  (~IsSphere(part)
                        /\ Near(getLandmark(landmarks, useWorld, part.from),
                                getLandmark(landmarks, useWorld, part.to))) =>
                         /\ PartPose(poseDataArray', i) = HiddenPose
                         /\ PartPose(gpu'.data, poseObjectStartIndex + i) = HiddenPose
          /\ \A d \in Offsets :
                 \A from \in { << 0, 0, 0 >>, << -3000, 15000, 250 >> } :
                     LET to == << from[1] + d[1], from[2] + d[2], from[3] + d[3] >>
                         m == createCylinderMatrix(from, to, 1000, 15000)
                     IN  /\ Near(from, to) => m = HiddenPose
                         /\ ~Near(from, to) =>
                                (m # HiddenPose /\ m[4] = << (from[1] + to[1]) \div 2 >>)]_vars

\* a frame has posed the skeleton from world landmarks whose last bone has
\* its anchors 0.0004 apart: the bone is hidden, the bone before it is not
C16_Witness ==
    /\ Has(frame.log, "texSubImage2D")
    /\ frame.usedPose = << lastPoseData >>
    /\ Len(lastPoseData.poses[1].worldLandmarks) = 33
    /\ getLandmark(lastPoseData.poses[1].worldLandmarks, TRUE, Single(26))
          # getLandmark(lastPoseData.poses[1].worldLandmarks, TRUE, Single(28))
    /\ PartPose(poseDataArray, 21) = HiddenPose
    /\ PartPose(gpu.data, poseObjectStartIndex + 21) = HiddenPose
    /\ PartPose(poseDataArray, 20) # HiddenPose

LoadsSettled == \A i \in DOMAIN loads : loads[i].pc \in { "done", "failed" }

DoneLoads == { i \in DOMAIN loads : loads[i].pc = "done" }

\* what a frame would render is the loaded scene s: its objects and the row
\* count in the texture, its lights and global coefficients, its texture
\* maps, its camera
Shows(s) ==
    /\ BuiltFrom(s)
    /\ objectCount = s.objectCount + 22
    /\ Len(gpu.data) = s.objectCount + 22
    /\ ParserScene = s.lights
    /\ textures = [n \in 1 .. s.maps |-> s.id]
    /\ camera = s.id

\* C17: once every load started has ended, and some have failed: if no
\* load succeeded nothing is rendered (sceneReady is false), and if the
\* loads that succeeded were all of one scene, the state the frames render
\* from is that scene's: the failed loads left nothing behind.
C17_FailedLoadKeepsScene ==
    (LoadsSettled /\ DoneLoads # DOMAIN loads) =>
        IF DoneLoads = { } THEN ~sceneReady
        ELSE \A i \in DoneLoads :
                (\A j \in DoneLoads : loads[j].root = loads[i].root) => Shows(loads[i].root)

\* C18: when the WebGL2 context or the shaders are not available, no
\* render-loop callback is ever queued or run, no load handler or pose
\* receiver is registered, the failure has been written to the status
\* element exactly once when start-up is over, and init is not entered
\* again once a call of it has failed.
C18_SetupFailureOnce ==
    (~glOk \/ ~shaderOk) =>
        /\ rafPending + batch = 0
        /\ xmlHandlers = 0 /\ poseReceivers = 0
        /\ StartUpDone => initFailures = 1
        /\ Cardinality({ k \in 1 .. 2 : initPc[k] \in { "failed", "nogl" } }) <= 1

(***************************************************************************)
(* C19                                                                     *)
(***************************************************************************)
\* the uniforms of the run with every tag that names no primitive replaced
\* by the sphere's
AsSphere(sh) ==
    Uniforms([sh EXCEPT !.tag1 = IF @ \in KnownTags THEN @ ELSE SHAPE_SPHERE * Unit])

\* the uniforms of the run without the second object where its tag names
\* no primitive
WithoutUnknown(sh) ==
    [Uniforms(sh) EXCEPT !.uObjectCount = IF sh.tag1 \in KnownTags THEN @ ELSE 1]

\* C19 as stated: an object whose type tag is none of 0, 1, 2, 3 is
\* intersected like a sphere, in traceRay and in isInShadow: both give what
\* they give for the scene in which that object carries the sphere's tag.
C19_UnknownTagAsSphere ==
    /\ shade.op = "traceRay"
          => shade.result = traceRay(AsSphere(shade), shade.ro, shade.rd)
    /\ shade.op = "isInShadow"
          => shade.result.shadowed
               = isInShadow(AsSphere(shade), shade.ro, shade.rd, shade.result.maxDist,
                            shade.result.ignoreIndex)

\* C19, amended: an object whose type tag is none of 0, 1, 2, 3 is skipped
\* by the dispatch: traceRay never makes it the hit object and isInShadow
\* never lets it cast a shadow, and both give what they give for the scene
\* without that object.
C19_UnknownTagSkipped ==
    /\ shade.op = "traceRay"
          => /\ shade.result = traceRay(WithoutUnknown(shade), shade.ro, shade.rd)
             /\ shade.tag1 \notin KnownTags => shade.result.hitIndex # 1
    /\ shade.op = "isInShadow"
          => shade.result.shadowed
               = isInShadow(WithoutUnknown(shade), shade.ro, shade.rd,
                            shade.result.maxDist, shade.result.ignoreIndex)

\* a ray that meets the object with the unknown tag first, were it a sphere,
\* has been traced and has hit the object behind it
C19_Witness ==
    /\ shade.op = "traceRay"
    /\ shade.tag1 \notin KnownTags
    /\ traceRay(AsSphere(shade), shade.ro, shade.rd).hitIndex = 1
    /\ shade.result.hitIndex = 0

(***************************************************************************)
(* C20                                                                     *)
(***************************************************************************)
IntersectOps == { "intersectSphere", "intersectCube", "intersectCylinder", "intersectCone" }

\* the distances at which a ray meets the cylinder's cap disks
CapCandidates(ro, rd) ==
    IF rd[2] = 0 THEN { }
    ELSE { t \in { SDiv(Unit \div 2 - ro[2], rd[2]), SDiv(-(Unit \div 2) - ro[2], rd[2]) } :
             /\ t > EPSILON
             /\ \E x \in { ro[1] + SMul(t, rd[1]) }, z \in { ro[3] + SMul(t, rd[3]) } :
                   SMul(x, x) + SMul(z, z) <= Unit \div 4 }

\* C20: each intersect function returns a negative sentinel or a candidate
\* distance, greater than EPSILON and not the 1e20 that stands for "no
\* candidate yet"; and the cylinder answers with the sentinel only for a
\* ray that meets neither of its caps.
C20_SentinelOrCandidate ==
    /\ shade.op \in IntersectOps
          => \/ shade.result < 0
             \/ shade.result > EPSILON /\ shade.result < Big19
    /\ shade.op = "intersectCylinder" /\ shade.result < 0
          => CapCandidates(shade.ro, shade.rd) = { }

(***************************************************************************)
(* C21                                                                     *)
(***************************************************************************)
\* the least element of a non-empty set of distances
Nearest(S) == CHOOSE t \in S : \A o \in S : t <= o

\* C21: intersectCylinder returns the nearest valid candidate for every ray
\* direction: for a ray that meets a cap disk it returns a hit no farther
\* than that cap hit, and for a ray parallel to the axis exactly the
\* nearest cap hit.
C21_CylinderNearestCandidate ==
    shade.op = "intersectCylinder" /\ CapCandidates(shade.ro, shade.rd) # { }
        => /\ shade.result > EPSILON
           /\ shade.result <= Nearest(CapCandidates(shade.ro, shade.rd))
           /\ shade.rd[1] = 0 /\ shade.rd[3] = 0
                 => shade.result = Nearest(CapCandidates(shade.ro, shade.rd))

(***************************************************************************)
(* C22                                                                     *)
(***************************************************************************)
\* every object traceRay scans against the ray, by index
ScannedHits(u, ro, rayDir) ==
    [i \in 0 .. (Min(u.uObjectCount, MAX_OBJECTS) - 1) |-> ObjectHit(u, i, ro, rayDir, 0)]

\* the objects with a valid hit: a distance t the intersect function found
\* on the ray, not the 1e20 of "no candidate", at a world distance beyond
\* EPSILON
ValidHits(hits) ==
    { i \in DOMAIN hits :
        hits[i].t > EPSILON /\ hits[i].t < Big19 /\ hits[i].d > EPSILON }

\* C22: traceRay picks the object whose valid hit has the smallest world
\* distance from the ray origin among the objects it scans, and takes the
\* background path exactly when no object has a valid hit.
C22_ClosestValidHit ==
    shade.op = "traceRay"
        => \E hits \in { ScannedHits(Uniforms(shade), shade.ro, shade.rd) } :
               IF ValidHits(hits) = { } THEN shade.result.hitIndex = -1
               ELSE /\ shade.result.hitIndex \in ValidHits(hits)
                    /\ \A j \in ValidHits(hits) :
                          hits[shade.result.hitIndex].d <= hits[j].d

(***************************************************************************)
(* C23                                                                     *)
(***************************************************************************)
\* every object isInShadow scans against the shadow ray, by index
ShadowHits(u, shadowOrigin, lightDir) ==
    [i \in 0 .. (Min(u.uObjectCount, MAX_OBJECTS) - 1)
        |-> ObjectHit(u, i, shadowOrigin, lightDir, -Unit)]

\* C23: the light is shadowed, and its contribution skipped, exactly when
\* some object other than the shaded one has a valid intersection on the
\* shadow ray at a world distance below the distance to the light; the
\* shaded object itself never shadows.
C23_ShadowedIffOccluder ==
    shade.op = "isInShadow"
        => \E hits \in { ShadowHits(Uniforms(shade), shade.ro, shade.rd) } :
               shade.result.shadowed
                 <=> \E i \in ValidHits(hits) \ { shade.result.ignoreIndex } :
                        hits[i].d < shade.result.maxDist

(***************************************************************************)
(* C24                                                                     *)
(***************************************************************************)
\* C24: every per-pixel invocation ends, whatever uObjectCount and
\* uNumLights are; the primary scan tests at most 256 objects, at most 16
\* lights are evaluated and each shadow test scans at most 256 objects.
C24_InvocationTerminates ==
    /\ [](shade.i <= MAX_OBJECTS /\ shade.li <= MAX_LIGHTS /\ shade.si <= MAX_OBJECTS)
    /\ <>(shade.op = "done")

\* an invocation with more objects and lights than the limits has ended
\* after scanning 256 objects and evaluating 16 lights, the last of them
\* with a full shadow scan
C24_Witness ==
    /\ shade.op = "done"
    /\ shade.uObjectCount > MAX_OBJECTS
    /\ shade.uNumLights > MAX_LIGHTS
    /\ shade.i = MAX_OBJECTS
    /\ shade.li = MAX_LIGHTS
    /\ shade.si = MAX_OBJECTS

(***************************************************************************)
(* C25                                                                     *)
(***************************************************************************)
\* C25: a frame that is drawn has bound at most 8 asset textures and set at
\* most the 8 samplers uTextures[0..7], however many maps the scene has.
C25_AtMostEightTextures ==
    Has(frame.log, "draw") => frame.u.uTextures <= SamplerSlots

C27_SingleWebcamLoop ==
    /\ detector.running + detector.raf <= 1
    /\ ~detector.webcamRunning => detector.callsSinceDisable <= 1
====
